---- MODULE Spec2Model ----
(***************************************************************************)
(* Model of scripts/wp_backup.py: the orchestrator WordPressBackup.run_backup, *)
(* the custom-post-type discoverer _detect_custom_post_types, the paginated *)
(* collector _backup_content_type and the exit-signal handlers.             *)
(*                                                                         *)
(* Conventions.  A content-type name is a record [cpt, name]: [cpt |-> TRUE,*)
(* name |-> "product"] is the Python string 'cpt_product', so that          *)
(* type_name.startswith('cpt_') is the field cpt.  A route of the discovery *)
(* document is the sequence of its path segments: '/wp/v2/posts' is         *)
(* <<"wp", "v2", "posts">>.  Records of a page are counted, not stored: a   *)
(* page is the number of records it holds.  File writes by _save_json_file  *)
(* are taken to succeed; directory creation may fail (OSError), which is    *)
(* the way a collection raises into run_backup.  The client's list call     *)
(* answers with a page or with one of the four API errors.                  *)
(*                                                                         *)
(* Scope of Spec.  The configured content types are those backed up       *)
(* through _backup_content_type alone, plus the custom_post_types marker;  *)
(* no S3 bucket is configured.  The per-record meta fetch that follows the *)
(* collection of a custom post type (lines 518-552) writes only the stats  *)
(* key cpt_<name>_meta and is the subject of SpecMeta.  The branch "except *)
(* KeyboardInterrupt" of run_backup has no action: both installed signal    *)
(* handlers turn the signal into SystemExit (action ExitSignal).            *)
(*                                                                         *)
(* Unit specifications.  Five parts of the script are modelled on their    *)
(* own, each with its own variables, which rest at their idle values in    *)
(* every other specification: SpecMedia is the coordinator                 *)
(* _download_media_files with its pool of workers, SpecResume is           *)
(* _download_media_file run repeatedly on one record, SpecClient is the    *)
(* constructor with _init_wp_client as main calls it, SpecSanitize is      *)
(* _sanitize_filename, SpecMeta is the per-record meta fetch of            *)
(* _backup_custom_post_type.  Two more are SpecSave, which is              *)
(* _save_json_file with writes that can fail, and SpecPaths, which is the  *)
(* target path _download_media_file computes, for two records.             *)
(*                                                                         *)
(* Other configurations of run_backup.  SpecBackupMedia is the run with    *)
(* the media collection and the outcome of its download phase;             *)
(* SpecBackupUpload is the run over one collection with an S3 bucket       *)
(* configured, followed by _upload_to_s3; SpecBackupOutcome is the run of  *)
(* Spec with an S3 bucket configured and the upload phase taken as a       *)
(* whole, returning or raising; SpecCollect is the run over one collection *)
(* for several values of max_items_per_type, with the list calls of the    *)
(* pass counted, and SpecCollectFair is SpecCollect with a main thread     *)
(* that goes on; SpecDiscovery is the run of the custom_post_types marker  *)
(* on discovery documents with routes that share their last segment.       *)
(***************************************************************************)
EXTENDS Naturals, Sequences, FiniteSets, TLC

VARIABLES
    is_authenticated,   \* self.is_authenticated
    content_types,      \* self.content_types
    max_items,          \* self.max_items_per_type
    status,             \* self.backup_info['status'] ("none": key not set)
    stats,              \* self.backup_info['stats']
    disk_info,          \* content of <output_dir>/backup_info.json
    pc,                 \* position of the main thread
    ct_idx,             \* index of run_backup's loop over content_types
    custom_post_types,  \* local list of _detect_custom_post_types
    probe_idx,          \* index of the loop over COMMON_CUSTOM_POST_TYPES
    probe_resp,         \* answer to the last probe of the loop ("none": none)
    cpt_idx,            \* index of the loop over custom_post_types
    caller,             \* who called the collector: "cpt" or "type"
    type_name,          \* collector: type_name
    items,              \* collector: len(items)
    page,               \* collector: page
    total_items,        \* collector: total_items
    retry_count,        \* collector: retry_count
    stop_reason,        \* collector: which break left the while loop
    page_files,         \* page_<n>.json written by the current pass: n -> records
    all_json,           \* records written to all.json by the current pass
    returned,           \* len of the list the last collector pass returned
    last_req,           \* the last remote request run_backup issued
    last_sleep,         \* seconds slept by the last loop iteration (0: none)
    consec_rl,          \* WPAPIRateLimitError in a row up to the last response
    consec_err,         \* generic WPAPIError in a row up to the last response
    last_resp,          \* the client's answer to the last list call of the pass
    list_calls,         \* list calls issued by the current pass
    consec_fail,        \* retried failures in a row since the last saved page
    attempted,          \* content types whose backup method run_backup called
    exit_code,          \* exit status of the process ("none": still running)
    info_error,         \* backup_info has the key 'error'
    \* _download_media_files, run on its own (specification SpecMedia)
    media_pc,           \* position of the coordinator (main thread)
    media_items,        \* len(media_items)
    media_max_workers,  \* self.media_max_workers
    future_state,       \* per submitted task: queued, running, done, tallied
    future_result,      \* per task: what future.result() gives
    download_stats,     \* the local dict download_stats
    media_info,         \* backup_info['stats']['media_files'] (<<>>: no key)
    media_disk,         \* the same entry in backup_info.json
    signalled,          \* an exit signal reached the main thread
    \* _download_media_file, run twice on one record (specification SpecResume)
    dl_item,            \* the media record
    dl_body,            \* size of the remote asset
    dl_local,           \* the target file: [exists, size]
    dl_runs,            \* downloads of the record done so far
    dl_result,          \* result of the last download
    dl_env,             \* what host and filesystem answered in the last download
    dl_requests,        \* the HTTP requests the last download sent, in order
    dl_known,           \* the remote sizes known to the last download
    \* WordPressBackup.__init__ (specification SpecClient)
    args,               \* the constructor's arguments and environment
    init_pc,            \* position inside __init__
    self_auth,          \* [is_authenticated, auth_mode]
    client,             \* self.client: "none", the auth type, or "public"
    init_resp,          \* what discover_endpoints answered ("none": not called)
    init_exit,          \* main: "none", "run_backup" (goes on) or "return_1"
    \* _sanitize_filename (specification SpecSanitize)
    fn_in,              \* the argument, a sequence of characters
    fn_out,             \* the returned name
    fn_pc,              \* "in" before the call, "out" after it
    \* the meta fetch of _backup_custom_post_type (specification SpecMeta)
    meta_pc,            \* position inside the meta part of the function
    meta_auth,          \* self.is_authenticated
    meta_items,         \* len(items): the records the collector returned
    meta_idx,           \* index of "for item in items"
    meta_successes,     \* the local counter meta_successes
    meta_errors,        \* the local counter meta_errors
    meta_log,           \* the get_all calls made: [item, resp], in order
    meta_stats,         \* stats['cpt_<name>_meta'] (<<>>: no key)
    \* _upload_to_s3 (specification SpecBackupUpload)
    up_files,           \* len(files_to_upload)
    up_idx,             \* index of the upload loop
    uploaded_files,     \* the local counter uploaded_files
    upload_errors,      \* the local counter upload_errors
    up_log,             \* the upload_file calls made: [file, resp], in order
    s3_upload,          \* backup_info['s3_upload'] (<<>>: no key)
    s3_upload_error,    \* backup_info has the key 's3_upload_error'
    \* _save_json_file (specification SpecSave)
    sj_pc,              \* "call" before the call, "returned" or "raised" after
    sj_data,            \* the data to save: a number of records
    sj_env,             \* what the filesystem and json.dump do during the call
    sj_path,            \* the file <path>: [state, records]
    sj_simplified,      \* the file <path>.simplified.json: [state, records]
    sj_opened,          \* the files the call opened for writing, in order
    sj_logged,          \* the error messages the call logged
    \* the target paths of two media records (specification SpecPaths)
    tp_pc,              \* "in" before the two downloads resolve, "out" after
    tp_items,           \* the two media records
    tp_paths            \* file_path of each record: [subfolder, name]

mediaVars == <<media_pc, media_items, media_max_workers, future_state,
               future_result, download_stats, media_info, media_disk,
               signalled>>
resumeVars == <<dl_item, dl_body, dl_local, dl_runs, dl_result, dl_env,
                dl_requests, dl_known>>
clientVars == <<args, init_pc, self_auth, client, init_resp, init_exit>>
sanitizeVars == <<fn_in, fn_out, fn_pc>>
metaVars == <<meta_pc, meta_auth, meta_items, meta_idx, meta_successes,
              meta_errors, meta_log, meta_stats>>
uploadVars == <<up_files, up_idx, uploaded_files, upload_errors, up_log,
                s3_upload, s3_upload_error>>
saveVars == <<sj_pc, sj_data, sj_env, sj_path, sj_simplified, sj_opened,
              sj_logged>>
pathVars == <<tp_pc, tp_items, tp_paths>>
sideVars == <<mediaVars, resumeVars, clientVars, sanitizeVars, metaVars,
              uploadVars, saveVars, pathVars>>

vars == <<is_authenticated, content_types, max_items, status, stats, disk_info, pc,
          ct_idx, custom_post_types, probe_idx, probe_resp, cpt_idx, caller,
          type_name,
          items, page, total_items, retry_count, stop_reason, page_files,
          all_json, returned, last_req, last_sleep, consec_rl, consec_err,
          last_resp, list_calls, consec_fail, attempted, exit_code,
          info_error, sideVars>>

(***************************************************************************)
(* Program constants and bounds                                            *)
(***************************************************************************)
per_page == 100
max_retries == 5
RateLimitCap == 60
ErrorCap == 30

\* self.max_items_per_type (default 1000), kept small
max_items_per_type == 150
\* size of a page shorter than per_page
ShortLen == 40
\* how many names of COMMON_CUSTOM_POST_TYPES are probed
MaxCommon == 2

ALL_COMMON_CUSTOM_POST_TYPES ==
    <<"product", "portfolio", "testimonial", "team", "faq",
      "service", "project", "event", "course", "review">>

Min(a, b) == IF a < b THEN a ELSE b

COMMON_CUSTOM_POST_TYPES ==
    SubSeq(ALL_COMMON_CUSTOM_POST_TYPES, 1,
           Min(MaxCommon, Len(ALL_COMMON_CUSTOM_POST_TYPES)))

\* content types backed up through _backup_content_type
CollectorTypes == {"posts", "pages", "categories", "tags", "comments", "users"}

\* configured content-type lists (the --content-types allowlist)
ContentTypeLists ==
    { <<"posts", "custom_post_types", "categories">>,
      <<"categories", "pages">> }

\* discovery documents: the 'routes' keys in iteration order
RouteMaps ==
    { <<>>,
      << <<"wp", "v2", "media">>, <<"oembed", "1.0", "embed">> >>,
      << <<"wp", "v2", "posts">>, <<"wp", "v2", "product">> >> }

\* discovery documents in which two routes end in the same segment
RouteMapsShared ==
    { << <<"wp", "v2", "posts", "id", "revisions">>,
         <<"wp", "v2", "pages", "id", "revisions">> >>,
      << <<"wp", "v2", "product">>, <<"wp", "v2", "taxonomies">>,
         <<"wp", "v2", "shop", "product">> >> }

Builtin(n) == [cpt |-> FALSE, name |-> n]
Cpt(n) == [cpt |-> TRUE, name |-> n]

NoEntry == [kind |-> "none", count |-> 0, pages |-> 0]
CountEntry(c, p) == [kind |-> "count", count |-> c, pages |-> p]
ErrorEntry == [kind |-> "error", count |-> 0, pages |-> 0]

NoReq == [op |-> "none", type |-> Builtin(""), page |-> 0, status |-> "none"]
NoType == Builtin("")

\* media records handed to _download_media_files, and its worker threads
MaxMedia == 3
MaxWorkers == 2
\* file sizes and byte counts range over 0..MaxSize
MaxSize == 2

NoEnv == [mkdir_ok |-> FALSE, head |-> "none", head_len |-> 0, get |-> "none"]

NoResult == [kind |-> "none", success |-> FALSE, bytes |-> 0, error |-> "",
             head |-> FALSE, get |-> FALSE]
NoFile == [exists |-> FALSE, size |-> 0]
NoItem == [source_url |-> FALSE, filesize |-> "absent", filesize_value |-> 0]
NoArgs == [username |-> FALSE, password |-> FALSE, force_public |-> FALSE,
           auth_type |-> "app_password", fault |-> "none"]
NoStats == [total |-> 0, success |-> 0, failed |-> 0, skipped |-> 0,
            bytes_downloaded |-> 0]

\* the variables of the unit specifications while run_backup is modelled
MediaIdle ==
    /\ media_pc = "idle"
    /\ media_items = 0
    /\ media_max_workers = 0
    /\ future_state = [t \in 1..MaxMedia |-> "none"]
    /\ future_result = [t \in 1..MaxMedia |-> NoResult]
    /\ download_stats = NoStats
    /\ media_info = <<>>
    /\ media_disk = <<>>
    /\ signalled = FALSE

ResumeIdle ==
    /\ dl_item = NoItem
    /\ dl_body = 0
    /\ dl_local = NoFile
    /\ dl_runs = 0
    /\ dl_result = NoResult
    /\ dl_env = NoEnv
    /\ dl_requests = <<>>
    /\ dl_known = {}

ClientIdle ==
    /\ args = NoArgs
    /\ init_pc = "idle"
    /\ self_auth = [is_authenticated |-> FALSE, auth_mode |-> "public"]
    /\ client = "none"
    /\ init_resp = "none"
    /\ init_exit = "none"

SanitizeIdle ==
    /\ fn_in = <<>>
    /\ fn_out = <<>>
    /\ fn_pc = "idle"

AbsentFile == [state |-> "absent", records |-> 0]

NoSaveEnv == [mkdir |-> "none", write |-> "none", simplified |-> "none"]

SaveIdle ==
    /\ sj_pc = "idle"
    /\ sj_data = 0
    /\ sj_env = NoSaveEnv
    /\ sj_path = AbsentFile
    /\ sj_simplified = AbsentFile
    /\ sj_opened = <<>>
    /\ sj_logged = <<>>

PathIdle ==
    /\ tp_pc = "idle"
    /\ tp_items = <<>>
    /\ tp_paths = <<>>

UploadIdle ==
    /\ up_files = 0
    /\ up_idx = 1
    /\ uploaded_files = 0
    /\ upload_errors = 0
    /\ up_log = <<>>
    /\ s3_upload = <<>>
    /\ s3_upload_error = FALSE

MetaIdle ==
    /\ meta_pc = "idle"
    /\ meta_auth = FALSE
    /\ meta_items = 0
    /\ meta_idx = 1
    /\ meta_successes = 0
    /\ meta_errors = 0
    /\ meta_log = <<>>
    /\ meta_stats = <<>>

RECURSIVE Pow2(_)
Pow2(n) == IF n = 0 THEN 1 ELSE 2 * Pow2(n - 1)

RECURSIVE SumCounts(_)
SumCounts(fs) ==
    IF fs = <<>> THEN 0 ELSE fs[1].count + SumCounts(Tail(fs))

(***************************************************************************)
(* Helpers of the orchestrator                                             *)
(***************************************************************************)
\* _save_backup_info: backup_info.json takes the in-memory manifest
SaveBackupInfo(st, sts) == [status |-> st, stats |-> sts]

\* a run_backup that starts with the final status
InitialStatusCompleted == "completed"

\* the status run_backup sets before any collection work
InitialStatus == "in_progress"

\* a run_backup that sets the status without calling _save_backup_info
InfoAfterStartUnsaved(sts) == [status |-> "absent", stats |-> sts]

\* the file content after run_backup's first lines
InfoAfterStart(sts) == SaveBackupInfo(InitialStatus, sts)

\* the filter of the discovered routes: the custom post types of a route map
RECURSIVE ExtractCustomPostTypes(_)
ExtractCustomPostTypes(routes) ==
    IF routes = <<>> THEN <<>>
    ELSE LET route == Head(routes)
             post_type == route[Len(route)]
             hit == /\ Len(route) >= 3
                    /\ route[1] = "wp"
                    /\ route[2] = "v2"
                    /\ post_type \notin {"posts", "pages", "media"}
                    /\ post_type \notin {"", "posts", "pages", "media"}
         IN (IF hit THEN <<post_type>> ELSE <<>>)
            \o ExtractCustomPostTypes(Tail(routes))

Range(q) == {q[i] : i \in 1..Len(q)}

\* the custom post types a run can meet, and the keys of backup_info['stats']
CptNames ==
    Range(COMMON_CUSTOM_POST_TYPES)
    \cup UNION {Range(ExtractCustomPostTypes(m)) :
                   m \in RouteMaps \cup RouteMapsShared}

StatKeys ==
    {Builtin(n) : n \in CollectorTypes \cup {"media"}}
    \cup {Cpt(n) : n \in CptNames}

(***************************************************************************)
(* Helpers of the collector                                                *)
(***************************************************************************)
\* params['status'] of a pagination request ("none": key absent)
StatusParam(tn, auth) ==
    IF (tn.name \in {"posts", "pages"} \/ tn.cpt) /\ ~auth
    THEN "publish" ELSE "none"

\* the keyword arguments of the discoverer's probe: list(per_page=1)
ProbeStatusParam(auth) == "none"

\* a backoff with exponent retry_count instead of retry_count - 1
RateLimitWaitOffByOne(rc) == Min(Pow2(rc), RateLimitCap)

\* wait_time = min(2 ** (retry_count - 1), 60)
RateLimitWait(rc) == Min(Pow2(rc - 1), RateLimitCap)

\* a generic-error backoff with exponent retry_count
ErrorWaitOffByOne(rc) == Min(Pow2(rc), ErrorCap)

\* wait_time = min(2 ** (retry_count - 1), 30)
ErrorWait(rc) == Min(Pow2(rc - 1), ErrorCap)

\* items = batch instead of items.extend(batch)
ExtendItemsOverwrite(n, batch) == batch

\* items.extend(batch)
ExtendItems(n, batch) == n + batch

\* the stats entry written when the while loop has ended
FinalEntry(n, p, reason) == CountEntry(n, p)

\* a collector that returns [] when the loop was left by an error break
ReturnedItemsDropPartial(n, reason) ==
    IF reason \in {"retries", "not_found", "permission"} THEN 0 ELSE n

\* what the collector hands back to its caller
ReturnedItems(n, reason) == n

\* a while condition that applies the cap one page late
LoopContinuesLate(total) == total < max_items + per_page

\* while total_items < self.max_items_per_type
LoopContinues(total) == total < max_items

\* a collector without the "except WPAPIPermissionError: break" clause
BreaksLoopNotFoundOnly(r) == r = "not_found"

\* the except clauses that leave the loop at once
BreaksLoop(r) == r \in {"not_found", "permission"}

\* a collector that does not take a short page for the last one
EndOfCollectionNever(batch_count) == FALSE

\* "if batch_count < per_page: break"
EndOfCollection(batch_count) == batch_count < per_page

\* a collector that advances the page after a short page too
NextPageAlways(p, batch_count) == p + 1

\* page += 1, reached only past the "batch_count < per_page: break"
NextPage(p, batch_count) == IF batch_count < per_page THEN p ELSE p + 1

\* a collector that gives up one failure later
RetriesExceededLate(rc) == rc > max_retries + 1

\* "if retry_count > max_retries: break", in both retrying except clauses
RetriesExceeded(rc) == rc > max_retries

\* a collector that keeps the retry counter over a saved page
RetryCountKept(rc) == rc

\* line 614: retry_count = 0 after a page was saved
RetryCountAfterPage(rc) == 0

Responses ==
    {"page", "short", "empty", "rate_limit", "not_found", "permission", "error"}

\* the state when run_backup is called, for a set of configured lists and a
\* set of values of max_items_per_type
InitRunWith(lists, caps) ==
    /\ is_authenticated \in BOOLEAN
    /\ content_types \in lists
    /\ max_items \in caps
    /\ status = "none"
    /\ stats = [k \in StatKeys |-> NoEntry]
    /\ disk_info = [status |-> "absent", stats |-> [k \in StatKeys |-> NoEntry]]
    /\ pc = "start"
    /\ ct_idx = 1
    /\ custom_post_types = <<>>
    /\ probe_idx = 1
    /\ probe_resp = "none"
    /\ cpt_idx = 1
    /\ caller = "none"
    /\ type_name = NoType
    /\ items = 0
    /\ page = 1
    /\ total_items = 0
    /\ retry_count = 0
    /\ stop_reason = "none"
    /\ page_files = <<>>
    /\ all_json = <<>>
    /\ returned = <<>>
    /\ last_req = NoReq
    /\ last_sleep = 0
    /\ consec_rl = 0
    /\ consec_err = 0
    /\ last_resp = "none"
    /\ list_calls = 0
    /\ consec_fail = 0
    /\ attempted = {}
    /\ exit_code = "none"
    /\ info_error = FALSE
    /\ MediaIdle
    /\ ResumeIdle
    /\ ClientIdle
    /\ SanitizeIdle
    /\ MetaIdle
    /\ UploadIdle
    /\ SaveIdle
    /\ PathIdle

InitRun(lists) == InitRunWith(lists, {max_items_per_type})

Init == InitRun(ContentTypeLists)

\* run_backup not started, for the unit specifications
RunIdle ==
    /\ is_authenticated = FALSE
    /\ content_types = <<>>
    /\ max_items = 0
    /\ status = "none"
    /\ stats = [k \in StatKeys |-> NoEntry]
    /\ disk_info = [status |-> "absent", stats |-> [k \in StatKeys |-> NoEntry]]
    /\ pc = "idle"
    /\ ct_idx = 1
    /\ custom_post_types = <<>>
    /\ probe_idx = 1
    /\ probe_resp = "none"
    /\ cpt_idx = 1
    /\ caller = "none"
    /\ type_name = NoType
    /\ items = 0
    /\ page = 1
    /\ total_items = 0
    /\ retry_count = 0
    /\ stop_reason = "none"
    /\ page_files = <<>>
    /\ all_json = <<>>
    /\ returned = <<>>
    /\ last_req = NoReq
    /\ last_sleep = 0
    /\ consec_rl = 0
    /\ consec_err = 0
    /\ last_resp = "none"
    /\ list_calls = 0
    /\ consec_fail = 0
    /\ attempted = {}
    /\ exit_code = "none"
    /\ info_error = FALSE

runVars == <<is_authenticated, content_types, max_items, status, stats, disk_info, pc,
             ct_idx, custom_post_types, probe_idx, probe_resp, cpt_idx, caller,
          type_name,
             items, page, total_items, retry_count, stop_reason, page_files,
             all_json, returned, last_req, last_sleep, consec_rl, consec_err,
             last_resp, list_calls, consec_fail, attempted, exit_code,
             info_error>>

configVars == <<is_authenticated, content_types, max_items>>
collectorVars == <<type_name, items, page, total_items, retry_count,
                   stop_reason, page_files, all_json, returned, last_sleep,
                   consec_rl, consec_err, last_resp, list_calls, consec_fail,
                   caller>>
loopVars == <<ct_idx, custom_post_types, probe_idx, probe_resp, cpt_idx>>

\* run_backup's "except Exception": status failed, manifest saved, re-raised
\* into main, which returns 1
RunFailed ==
    /\ status' = "failed"
    /\ disk_info' = SaveBackupInfo("failed", stats)
    /\ pc' = "raised"
    /\ exit_code' = "1"
    /\ info_error' = TRUE

\* the first lines of _backup_content_type, up to the while loop
StartCollect(tn, who) ==
    /\ type_name' = tn
    /\ caller' = who
    /\ items' = 0
    /\ page' = 1
    /\ total_items' = 0
    /\ retry_count' = 0
    /\ stop_reason' = "none"
    /\ page_files' = <<>>
    /\ all_json' = <<>>
    /\ returned' = <<>>
    /\ last_sleep' = 0
    /\ consec_rl' = 0
    /\ consec_err' = 0
    /\ last_resp' = "none"
    /\ list_calls' = 0
    /\ consec_fail' = 0
    /\ pc' = "collect"

\* run_backup, from its entry to the detection of custom post types
RunBackupStart ==
    /\ pc = "start"
    /\ status' = InitialStatus
    /\ disk_info' = InfoAfterStart(stats)
    /\ pc' = IF \E i \in 1..Len(content_types) :
                   content_types[i] = "custom_post_types"
             THEN "detect" ELSE "types"
    /\ UNCHANGED <<configVars, stats, loopVars, collectorVars, last_req,
                   attempted, exit_code, info_error>>
    /\ UNCHANGED sideVars

\* the answers to the probe cpt_client.list(per_page=1)
ProbeResponses == {"items", "empty", "not_found", "permission", "error"}

\* a discoverer that records every candidate whose probe did not fail
ProbeRecordsAnyAnswer(r) == r \in {"items", "empty"}

\* lines 406-408: "if items: custom_post_types.append(cpt)"
ProbeRecords(r) == r = "items"

\* _detect_custom_post_types: discover_endpoints and the route filter, for
\* a set of discovery documents
DetectFrom(maps) ==
    /\ last_req' = [op |-> "discover", type |-> NoType, page |-> 0,
                    status |-> "none"]
    /\ \/ \E routes \in maps :
             LET found == ExtractCustomPostTypes(routes) IN
             /\ custom_post_types' = found
             /\ pc' = IF found = <<>> THEN "probe" ELSE "cpt_loop"
             /\ probe_idx' = 1
             /\ probe_resp' = "none"
             /\ cpt_idx' = 1
             /\ UNCHANGED <<status, disk_info, exit_code, info_error>>
       \/ \* WPAPIPermissionError: logged, detection ends
          /\ pc' = "types"
          /\ UNCHANGED <<status, disk_info, exit_code, info_error, custom_post_types,
                         probe_idx, probe_resp, cpt_idx>>
       \/ \* any other WPAPIError: re-raised out of run_backup's loop
          /\ RunFailed
          /\ UNCHANGED <<custom_post_types, probe_idx, probe_resp, cpt_idx>>
    /\ UNCHANGED <<configVars, stats, ct_idx, collectorVars, attempted>>
    /\ UNCHANGED sideVars

Detect == pc = "detect" /\ DetectFrom(RouteMaps)

\* one iteration of the loop over COMMON_CUSTOM_POST_TYPES
Probe ==
    /\ pc = "probe"
    /\ probe_idx <= Len(COMMON_CUSTOM_POST_TYPES)
    /\ LET cpt == COMMON_CUSTOM_POST_TYPES[probe_idx] IN
       /\ last_req' = [op |-> "probe", type |-> Cpt(cpt), page |-> 0,
                       status |-> ProbeStatusParam(is_authenticated)]
       /\ \E r \in ProbeResponses :
             /\ probe_resp' = r
             /\ custom_post_types' =
                   IF ProbeRecords(r) THEN Append(custom_post_types, cpt)
                   ELSE custom_post_types
    /\ probe_idx' = probe_idx + 1
    /\ UNCHANGED <<configVars, status, stats, disk_info, pc, ct_idx, cpt_idx,
                   collectorVars, attempted, exit_code, info_error>>
    /\ UNCHANGED sideVars

\* the probing loop is over: backup_info['custom_post_types'] is set
ProbeDone ==
    /\ pc = "probe"
    /\ probe_idx > Len(COMMON_CUSTOM_POST_TYPES)
    /\ pc' = "cpt_loop"
    /\ cpt_idx' = 1
    /\ probe_resp' = "none"
    /\ UNCHANGED <<configVars, status, stats, disk_info, ct_idx,
                   custom_post_types, probe_idx, collectorVars, last_req,
                   attempted, exit_code, info_error>>
    /\ UNCHANGED sideVars

\* one iteration of "for cpt in custom_post_types": _backup_custom_post_type
\* enters the collector; a failing mkdir raises through the detection into
\* run_backup's "except Exception"
CptLoop ==
    /\ pc = "cpt_loop"
    /\ cpt_idx <= Len(custom_post_types)
    /\ \/ /\ StartCollect(Cpt(custom_post_types[cpt_idx]), "cpt")
          /\ UNCHANGED <<status, disk_info, exit_code, info_error>>
       \/ /\ RunFailed
          /\ UNCHANGED collectorVars
    /\ UNCHANGED <<configVars, stats, loopVars, last_req, attempted>>
    /\ UNCHANGED sideVars

\* the detection returns into run_backup
CptLoopDone ==
    /\ pc = "cpt_loop"
    /\ cpt_idx > Len(custom_post_types)
    /\ pc' = "types"
    /\ UNCHANGED <<configVars, status, stats, disk_info, loopVars,
                   collectorVars, last_req, attempted, exit_code, info_error>>
    /\ UNCHANGED sideVars

\* one iteration of "for content_type in self.content_types"
TypesLoop ==
    /\ pc = "types"
    /\ ct_idx <= Len(content_types)
    /\ LET ct == content_types[ct_idx] IN
       \/ /\ ct = "custom_post_types"
          /\ ct_idx' = ct_idx + 1
          /\ UNCHANGED <<stats, collectorVars, pc, attempted>>
       \/ /\ ct \in CollectorTypes
          /\ attempted' = attempted \cup {ct}
          /\ \/ /\ StartCollect(Builtin(ct), "type")
                /\ UNCHANGED <<stats, ct_idx>>
             \/ \* mkdir raises OSError: caught by "except Exception"
                /\ stats' = [stats EXCEPT ![Builtin(ct)] = ErrorEntry]
                /\ ct_idx' = ct_idx + 1
                /\ UNCHANGED <<collectorVars, pc>>
    /\ UNCHANGED <<configVars, status, disk_info, custom_post_types,
                   probe_idx, probe_resp, cpt_idx, last_req, exit_code, info_error>>
    /\ UNCHANGED sideVars

\* the end of run_backup (no S3 bucket configured), and main's return 0
Finalize ==
    /\ pc = "types"
    /\ ct_idx > Len(content_types)
    /\ status' = "completed"
    /\ disk_info' = SaveBackupInfo("completed", stats)
    /\ pc' = "done"
    /\ exit_code' = "0"
    /\ UNCHANGED info_error
    /\ UNCHANGED <<configVars, stats, loopVars, collectorVars, last_req,
                   attempted>>
    /\ UNCHANGED sideVars

\* one iteration of the collector's while loop, for one client response
ListPageStep ==
    /\ pc = "collect"
    /\ stop_reason = "none"
    /\ LoopContinues(total_items)
    /\ last_req' = [op |-> "list", type |-> type_name, page |-> page,
                    status |-> StatusParam(type_name, is_authenticated)]
    /\ \E r \in Responses :
        /\ last_resp' = r
        /\ \/ /\ r = "empty"
              /\ stop_reason' = "empty"
              /\ last_sleep' = 0
              /\ consec_rl' = 0
              /\ consec_err' = 0
              /\ UNCHANGED <<items, total_items, page, page_files, retry_count,
                             consec_fail>>
           \/ /\ r \in {"page", "short"}
              /\ LET batch_count == IF r = "page" THEN per_page ELSE ShortLen IN
                 /\ items' = ExtendItems(items, batch_count)
                 /\ total_items' = total_items + batch_count
                 /\ page_files' =
                        Append(page_files, [n |-> page, count |-> batch_count])
                 /\ stop_reason' = IF EndOfCollection(batch_count)
                                   THEN "short" ELSE "none"
                 /\ page' = NextPage(page, batch_count)
              /\ retry_count' = RetryCountAfterPage(retry_count)
              /\ consec_fail' = 0
              /\ last_sleep' = 0
              /\ consec_rl' = 0
              /\ consec_err' = 0
           \/ /\ r = "rate_limit"
              /\ retry_count' = retry_count + 1
              /\ consec_rl' = consec_rl + 1
              /\ consec_err' = 0
              /\ consec_fail' = consec_fail + 1
              /\ IF RetriesExceeded(retry_count + 1)
                 THEN stop_reason' = "retries" /\ last_sleep' = 0
                 ELSE /\ stop_reason' = "none"
                      /\ last_sleep' = RateLimitWait(retry_count + 1)
              /\ UNCHANGED <<items, total_items, page, page_files>>
           \/ /\ r \in {"not_found", "permission"}
              /\ BreaksLoop(r)
              /\ stop_reason' = r
              /\ last_sleep' = 0
              /\ consec_rl' = 0
              /\ consec_err' = 0
              /\ UNCHANGED <<items, total_items, page, page_files, retry_count,
                             consec_fail>>
           \/ /\ r \in {"not_found", "permission", "error"}
              /\ ~BreaksLoop(r)
              /\ retry_count' = retry_count + 1
              /\ consec_err' = consec_err + 1
              /\ consec_rl' = 0
              /\ consec_fail' = consec_fail + 1
              /\ IF RetriesExceeded(retry_count + 1)
                 THEN stop_reason' = "retries" /\ last_sleep' = 0
                 ELSE /\ stop_reason' = "none"
                      /\ last_sleep' = ErrorWait(retry_count + 1)
              /\ UNCHANGED <<items, total_items, page, page_files>>
    /\ UNCHANGED <<configVars, status, stats, disk_info, pc, loopVars,
                   all_json, returned, type_name, caller, attempted, exit_code, info_error>>
    /\ UNCHANGED sideVars

\* the iteration in the runs that do not count the list calls
ListPage == ListPageStep /\ UNCHANGED list_calls

\* after the while loop: all.json, the stats entry, the return to the caller
FinishCollect ==
    /\ pc = "collect"
    /\ stop_reason # "none" \/ ~LoopContinues(total_items)
    /\ all_json' = IF items > 0 THEN <<items>> ELSE <<>>
    /\ stats' = [stats EXCEPT ![type_name] = FinalEntry(items, page, stop_reason)]
    /\ returned' = <<ReturnedItems(items, stop_reason)>>
    /\ stop_reason' = IF stop_reason = "none" THEN "cap" ELSE stop_reason
    /\ IF caller = "cpt"
       THEN cpt_idx' = cpt_idx + 1 /\ pc' = "cpt_loop" /\ UNCHANGED ct_idx
       ELSE IF caller = "media"
       THEN pc' = "media_files" /\ UNCHANGED <<ct_idx, cpt_idx>>
       ELSE ct_idx' = ct_idx + 1 /\ pc' = "types" /\ UNCHANGED cpt_idx
    /\ UNCHANGED <<configVars, status, disk_info, custom_post_types,
                   probe_idx, probe_resp, type_name, items, page, total_items,
                   retry_count,
                   page_files, last_sleep, consec_rl, consec_err, last_resp,
                   list_calls, consec_fail,
                   caller, last_req, attempted, exit_code, info_error>>
    /\ UNCHANGED sideVars

\* SIGINT or SIGTERM while run_backup runs: the handler calls sys.exit(1);
\* SystemExit is neither KeyboardInterrupt nor Exception, so no handler of
\* run_backup or main catches it and the process ends with status 1
ExitSignal ==
    /\ pc \notin {"idle", "start", "done", "raised", "exited"}
    /\ pc' = "exited"
    /\ exit_code' = "1"
    /\ UNCHANGED info_error
    /\ UNCHANGED <<configVars, status, stats, disk_info, loopVars,
                   collectorVars, last_req, attempted>>
    /\ UNCHANGED sideVars

Next ==
    \/ RunBackupStart
    \/ Detect
    \/ Probe
    \/ ProbeDone
    \/ CptLoop
    \/ CptLoopDone
    \/ TypesLoop
    \/ Finalize
    \/ ListPage
    \/ FinishCollect
    \/ ExitSignal

Spec == Init /\ [][Next]_vars

(***************************************************************************)
(* run_backup over one collection, for several values of                   *)
(* max_items_per_type, with the list calls of the pass counted.            *)
(***************************************************************************)
CollectTypeLists == { <<"categories">>, <<"posts">> }

\* the largest max_items_per_type, in pages
MaxPages == 2

MaxItemsValues ==
    {0, 1, max_items_per_type}
    \cup {k * per_page : k \in 1..MaxPages}
    \cup {k * per_page + 1 : k \in 1..MaxPages}

InitCollect == InitRunWith(CollectTypeLists, MaxItemsValues)

\* the iteration of the while loop, its list call counted
ListPageCounted == ListPageStep /\ list_calls' = list_calls + 1

NextCollect ==
    \/ RunBackupStart
    \/ TypesLoop
    \/ ListPageCounted
    \/ FinishCollect
    \/ Finalize
    \/ ExitSignal

SpecCollect == InitCollect /\ [][NextCollect]_vars

\* the main thread is not suspended for ever: a list call returns or raises,
\* a sleep ends
SpecCollectFair ==
    SpecCollect /\ WF_vars(ListPageCounted) /\ WF_vars(FinishCollect)

(***************************************************************************)
(* run_backup with the custom_post_types marker alone, on sites whose      *)
(* discovery document has routes that end in the same segment.             *)
(***************************************************************************)
DiscoveryTypeLists == { <<"custom_post_types">> }

InitDiscovery == InitRun(DiscoveryTypeLists)

DetectShared == pc = "detect" /\ DetectFrom(RouteMapsShared)

NextDiscovery ==
    \/ RunBackupStart
    \/ DetectShared
    \/ CptLoop
    \/ CptLoopDone
    \/ TypesLoop
    \/ ListPage
    \/ FinishCollect
    \/ Finalize
    \/ ExitSignal

SpecDiscovery == InitDiscovery /\ [][NextDiscovery]_vars

(***************************************************************************)
(* run_backup with the media collection: _backup_media calls the collector *)
(* and hands the returned records to _download_media_files, whose          *)
(* coordinator is the subject of SpecMedia.  Here the download phase is    *)
(* its outcome for run_backup: it is not entered, it returns, or it raises *)
(* the OSError of the mkdir of media_files.                                *)
(***************************************************************************)
MediaTypeLists == { <<"media", "custom_post_types", "categories">> }

InitBackupMedia == InitRun(MediaTypeLists)

\* lines 340-343: stats[content_type] = {'error': str(e)}
HandlerEntry(entry) == ErrorEntry

\* the iteration of run_backup's loop for 'media': _backup_media enters
\* the collector, or the mkdir of the media directory raises
MediaLoop ==
    /\ pc = "types"
    /\ ct_idx <= Len(content_types)
    /\ content_types[ct_idx] = "media"
    /\ attempted' = attempted \cup {"media"}
    /\ \/ /\ StartCollect(Builtin("media"), "media")
          /\ UNCHANGED <<stats, ct_idx>>
       \/ /\ stats' = [stats EXCEPT
                          ![Builtin("media")] = HandlerEntry(@)]
          /\ ct_idx' = ct_idx + 1
          /\ UNCHANGED <<collectorVars, pc>>
    /\ UNCHANGED <<configVars, status, disk_info, custom_post_types,
                   probe_idx, probe_resp, cpt_idx, last_req, exit_code, info_error>>
    /\ UNCHANGED sideVars

\* _backup_media returns: line 457 is false (skip_media is set or the
\* collector returned no record), or _download_media_files ran and
\* returned, which writes stats['media_files'] only
MediaFilesReturned ==
    /\ pc = "media_files"
    /\ pc' = "types"
    /\ ct_idx' = ct_idx + 1
    /\ UNCHANGED <<configVars, status, stats, disk_info, custom_post_types,
                   probe_idx, probe_resp, cpt_idx, collectorVars, last_req,
                   attempted, exit_code, info_error>>
    /\ UNCHANGED sideVars

\* the mkdir of media_files fails (lines 716-720): the OSError leaves
\* _backup_media and is caught by run_backup's "except Exception"
MediaFilesFailed ==
    /\ pc = "media_files"
    /\ returned # <<0>>
    /\ stats' = [stats EXCEPT ![Builtin("media")] = HandlerEntry(@)]
    /\ pc' = "types"
    /\ ct_idx' = ct_idx + 1
    /\ UNCHANGED <<configVars, status, disk_info, custom_post_types,
                   probe_idx, probe_resp, cpt_idx, collectorVars, last_req,
                   attempted, exit_code, info_error>>
    /\ UNCHANGED sideVars

NextBackupMedia ==
    \/ RunBackupStart
    \/ Detect
    \/ Probe
    \/ ProbeDone
    \/ CptLoop
    \/ CptLoopDone
    \/ TypesLoop
    \/ Finalize
    \/ ListPage
    \/ FinishCollect
    \/ ExitSignal
    \/ MediaLoop
    \/ MediaFilesReturned
    \/ MediaFilesFailed

SpecBackupMedia == InitBackupMedia /\ [][NextBackupMedia]_vars

TypeOK ==
    /\ status \in {"none", "in_progress", "completed", "interrupted", "failed"}
    /\ retry_count \in 0..(max_retries + 1)
    /\ items = total_items

(***************************************************************************)
(* run_backup with an S3 bucket configured: _upload_to_s3 follows the loop *)
(* over the content types.  The local tree holds backup_info.json, written *)
(* when the run started, and what the collections wrote; the files found   *)
(* by os.walk are numbered in the order of the walk and stay readable      *)
(* while they are uploaded.                                                *)
(***************************************************************************)
UploadTypeLists == { <<"categories">> }

InitBackupUpload == InitRun(UploadTypeLists)

\* what s3_client.upload_file does with one file: it is stored, it raises
\* NoCredentialsError or ClientError, or it raises another exception
UploadResponses == {"uploaded", "client_error", "other_error"}
UploadFailures == {"client_error", "other_error"}

\* the files os.walk finds below output_dir after a run over one collection
TreeFiles == 1 + Len(page_files) + Len(all_json)

\* an upload loop that counts the errors of the S3 client only
UploadErrorsClientOnly(e, r) == IF r = "client_error" THEN e + 1 ELSE e

\* lines 1062-1068: both except clauses add one to upload_errors
UploadErrors(e, r) == IF r \in UploadFailures THEN e + 1 ELSE e

\* line 1055: counted when upload_file returned
UploadedFiles(n, r) == IF r = "uploaded" THEN n + 1 ELSE n

uploadFrame == <<configVars, status, stats, loopVars, collectorVars, last_req,
                 attempted, exit_code, info_error, mediaVars, resumeVars, clientVars,
                 sanitizeVars, metaVars, saveVars, pathVars>>

\* line 346, and lines 1013-1038: the walk that lists the files
UploadStart ==
    /\ pc = "types"
    /\ ct_idx > Len(content_types)
    /\ pc' = "upload"
    /\ up_files' = TreeFiles
    /\ UNCHANGED <<uploadFrame, disk_info, up_idx, uploaded_files,
                   upload_errors, up_log, s3_upload, s3_upload_error>>

\* one iteration of the upload loop
UploadFile ==
    /\ pc = "upload"
    /\ up_idx <= up_files
    /\ \E r \in UploadResponses :
         /\ up_log' = Append(up_log, [file |-> up_idx, resp |-> r])
         /\ uploaded_files' = UploadedFiles(uploaded_files, r)
         /\ upload_errors' = UploadErrors(upload_errors, r)
    /\ up_idx' = up_idx + 1
    /\ UNCHANGED <<uploadFrame, disk_info, pc, up_files, s3_upload,
                   s3_upload_error>>

\* lines 1070-1086: the s3_upload entry is set and the manifest is saved
UploadDone ==
    /\ pc = "upload"
    /\ up_idx > up_files
    /\ s3_upload' = <<[files_uploaded |-> uploaded_files,
                       upload_errors |-> upload_errors]>>
    /\ disk_info' = SaveBackupInfo(status, stats)
    /\ pc' = "uploaded"
    /\ UNCHANGED <<uploadFrame, up_files, up_idx, uploaded_files,
                   upload_errors, up_log, s3_upload_error>>

\* line 357: the status set after the upload phase, whatever its outcome
StatusAfterUploadStrict(err) == IF err THEN "failed" ELSE "completed"

StatusAfterUpload(err) == "completed"

\* lines 354-364: the end of run_backup, and main's return 0
FinalizeUploaded ==
    /\ pc = "uploaded"
    /\ status' = StatusAfterUpload(s3_upload_error)
    /\ disk_info' = SaveBackupInfo(status', stats)
    /\ pc' = "done"
    /\ exit_code' = "0"
    /\ UNCHANGED info_error
    /\ UNCHANGED <<configVars, stats, loopVars, collectorVars, last_req,
                   attempted>>
    /\ UNCHANGED sideVars

NextBackupUpload ==
    \/ RunBackupStart
    \/ TypesLoop
    \/ ListPage
    \/ FinishCollect
    \/ ExitSignal
    \/ UploadStart
    \/ UploadFile
    \/ UploadDone
    \/ FinalizeUploaded

SpecBackupUpload == InitBackupUpload /\ [][NextBackupUpload]_vars

(***************************************************************************)
(* run_backup with an S3 bucket configured, over the content-type lists of *)
(* Spec: the upload phase is taken as a whole, by its two outcomes.  It    *)
(* either returns, having set the s3_upload entry and saved the manifest   *)
(* (lines 1073-1086), or raises before either (lines 1088-1091), and then  *)
(* run_backup records s3_upload_error and goes on (lines 349-352).         *)
(***************************************************************************)
outcomeFrame == <<configVars, status, stats, loopVars, collectorVars,
                  last_req, attempted, exit_code, info_error, mediaVars,
                  resumeVars, clientVars, sanitizeVars, metaVars, saveVars,
                  pathVars, up_files,
                  up_idx, uploaded_files, upload_errors, up_log>>

\* lines 346-348: _upload_to_s3 returns
UploadPhaseReturned ==
    /\ pc = "types"
    /\ ct_idx > Len(content_types)
    /\ \E n \in 0..TreeFiles :
         s3_upload' = <<[files_uploaded |-> n,
                         upload_errors |-> TreeFiles - n]>>
    /\ disk_info' = SaveBackupInfo(status, stats)
    /\ pc' = "uploaded"
    /\ UNCHANGED <<outcomeFrame, s3_upload_error>>

\* lines 349-352: _upload_to_s3 raises and run_backup records the error
UploadPhaseFailed ==
    /\ pc = "types"
    /\ ct_idx > Len(content_types)
    /\ s3_upload_error' = TRUE
    /\ pc' = "uploaded"
    /\ UNCHANGED <<outcomeFrame, disk_info, s3_upload>>

NextBackupOutcome ==
    \/ RunBackupStart
    \/ Detect
    \/ Probe
    \/ ProbeDone
    \/ CptLoop
    \/ CptLoopDone
    \/ TypesLoop
    \/ ListPage
    \/ FinishCollect
    \/ ExitSignal
    \/ UploadPhaseReturned
    \/ UploadPhaseFailed
    \/ FinalizeUploaded

SpecBackupOutcome == Init /\ [][NextBackupOutcome]_vars

(***************************************************************************)
(* _download_media_file: one download of one media record                  *)
(*                                                                         *)
(* item.filesize says what the record holds under 'filesize': no key       *)
(* ("absent"), a number, a text that int() rejects, or null.  env is what   *)
(* the remote host and the filesystem answer during this download.         *)
(***************************************************************************)
FileSizes == 0..MaxSize

Items ==
    {it \in [source_url : BOOLEAN,
             filesize : {"absent", "number", "text", "null"},
             filesize_value : FileSizes] :
        it.filesize # "number" => it.filesize_value = 0}

Envs ==
    {e \in [mkdir_ok : BOOLEAN,
            head : {"error", "badlen", "len"},
            head_len : FileSizes,
            get : {"error", "open_fails", "partial", "ok"}] :
        e.head # "len" => e.head_len = 0}

Value(ok, n, err, h, g) ==
    [kind |-> "value", success |-> ok, bytes |-> n, error |-> err,
     head |-> h, get |-> g]

\* int(None) raises TypeError, which no except clause of the size check names
Raised == [kind |-> "raised", success |-> FALSE, bytes |-> 0,
           error |-> "TypeError", head |-> FALSE, get |-> FALSE]

\* the check of lines 853-858 on the record's own filesize
FilesizeSkips(item, local) ==
    /\ local.exists
    /\ item.filesize = "number"
    /\ local.size = item.filesize_value

\* a download that never trusts the probe and fetches the body again
HeadSkipsNever(env, local) == FALSE

\* the check of line 882 on the Content-Length of the HEAD response
HeadSkips(env, local) ==
    /\ env.head = "len"
    /\ local.exists
    /\ local.size = env.head_len
    /\ env.head_len > 0

\* lines 885-887: the probe failures the inner except clause passes over
\* (RequestException, ValueError)
ProbePassedOverRequestOnly(env) == env.head = "error"

ProbePassedOver(env) == env.head \in {"error", "badlen"}

\* a body download whose OSError leaves the worker
GetBodyPropagates(local, body, env) ==
    IF env.get = "open_fails"
    THEN [result |-> [kind |-> "raised", success |-> FALSE, bytes |-> 0,
                      error |-> "OSError", head |-> TRUE, get |-> TRUE],
          local |-> local]
    ELSE [result |-> Value(env.get = "ok",
                           IF env.get = "ok" THEN body ELSE 0,
                           IF env.get = "ok" THEN "" ELSE "Download error",
                           TRUE, TRUE),
          local |-> IF env.get = "error" THEN local
                    ELSE [exists |-> TRUE,
                          size |-> IF env.get = "ok" THEN body
                                   ELSE body \div 2]]

\* lines 889-909: the GET and the streamed write of the body
GetBody(local, body, env) ==
    CASE env.get = "error" ->
            [result |-> Value(FALSE, 0, "Download error", TRUE, TRUE),
             local |-> local]
      [] env.get = "open_fails" ->
            [result |-> Value(FALSE, 0, "File system error", TRUE, TRUE),
             local |-> local]
      [] env.get = "partial" ->
            [result |-> Value(FALSE, 0, "Download error", TRUE, TRUE),
             local |-> [exists |-> TRUE, size |-> body \div 2]]
      [] OTHER ->
            [result |-> Value(TRUE, body, "", TRUE, TRUE),
             local |-> [exists |-> TRUE, size |-> body]]

\* _download_media_file(media_item, media_dir), on the target file local
DownloadMediaFile(item, local, body, env) ==
    IF ~item.source_url
    THEN [result |-> Value(FALSE, 0, "No source URL found", FALSE, FALSE),
          local |-> local]
    ELSE IF local.exists /\ item.filesize = "null"
    THEN [result |-> Raised, local |-> local]
    ELSE IF FilesizeSkips(item, local)
    THEN [result |-> Value(TRUE, 0, "skipped", FALSE, FALSE), local |-> local]
    ELSE IF ~local.exists /\ ~env.mkdir_ok
    THEN [result |-> Value(FALSE, 0, "Failed to create directory",
                           FALSE, FALSE),
          local |-> local]
    ELSE IF env.head # "len" /\ ~ProbePassedOver(env)
    THEN [result |-> Value(FALSE, 0, "Unexpected error", TRUE, FALSE),
          local |-> local]
    ELSE IF HeadSkips(env, local)
    THEN [result |-> Value(TRUE, 0, "skipped", TRUE, FALSE), local |-> local]
    ELSE GetBody(local, body, env)

\* the requests a download sent: one HEAD (line 874), one GET (line 890)
RequestsSent(result) ==
    (IF result.head THEN <<"HEAD">> ELSE <<>>)
    \o (IF result.get THEN <<"GET">> ELSE <<>>)

\* the remote sizes a download gets to know: the record's filesize and the
\* positive Content-Length of a probe that was sent and answered
KnownSizes(item, env, result) ==
    (IF item.filesize = "number" THEN {item.filesize_value} ELSE {})
    \cup (IF result.head /\ env.head = "len" /\ env.head_len > 0
          THEN {env.head_len} ELSE {})

\* downloads of the same record in a row
MaxRuns == 2

InitResume ==
    /\ dl_item \in Items
    /\ dl_body \in FileSizes
    /\ dl_local = NoFile
    /\ dl_runs = 0
    /\ dl_result = NoResult
    /\ dl_env = NoEnv
    /\ dl_requests = <<>>
    /\ dl_known = {}
    /\ RunIdle
    /\ MediaIdle
    /\ ClientIdle
    /\ SanitizeIdle
    /\ MetaIdle
    /\ UploadIdle
    /\ SaveIdle
    /\ PathIdle

\* one more run downloads the record into the same destination
DownloadRun ==
    /\ dl_runs < MaxRuns
    /\ \E env \in Envs :
         LET d == DownloadMediaFile(dl_item, dl_local, dl_body, env) IN
         /\ dl_result' = d.result
         /\ dl_env' = env
         /\ dl_requests' = RequestsSent(d.result)
         /\ dl_local' = d.local
         /\ dl_known' = KnownSizes(dl_item, env, d.result)
    /\ dl_runs' = dl_runs + 1
    /\ UNCHANGED <<dl_item, dl_body, runVars, mediaVars, clientVars,
                   sanitizeVars, metaVars, uploadVars, saveVars, pathVars>>

NextResume == DownloadRun

SpecResume == InitResume /\ [][NextResume]_vars

(***************************************************************************)
(* _download_media_files: the coordinator and its pool of worker threads   *)
(***************************************************************************)
Max(a, b) == IF a > b THEN a ELSE b

\* what a worker's future can hold: the (success, bytes, error) tuples that
\* _download_media_file returns, or the exception it raised
TaskResult(r) ==
    [kind |-> r.kind, success |-> r.success, bytes |-> r.bytes,
     error |-> r.error, head |-> FALSE, get |-> FALSE]

TaskResults ==
    {TaskResult(DownloadMediaFile(it, lf, b, e).result) :
        it \in Items,
        lf \in {NoFile} \cup {[exists |-> TRUE, size |-> n] : n \in FileSizes},
        b \in FileSizes,
        e \in Envs}

\* a coordinator whose loop has no "except Exception" tally
TallyDropRaised(st, res) ==
    IF res.kind = "raised" THEN st
    ELSE IF res.success
    THEN [st EXCEPT !.success = @ + 1, !.bytes_downloaded = @ + res.bytes]
    ELSE IF res.error = "skipped" THEN [st EXCEPT !.skipped = @ + 1]
    ELSE [st EXCEPT !.failed = @ + 1]

\* lines 765-783: the tally of one completed future
Tally(st, res) ==
    IF res.kind = "raised" THEN [st EXCEPT !.failed = @ + 1]
    ELSE IF res.success
    THEN [st EXCEPT !.success = @ + 1, !.bytes_downloaded = @ + res.bytes]
    ELSE IF res.error = "skipped" THEN [st EXCEPT !.skipped = @ + 1]
    ELSE [st EXCEPT !.failed = @ + 1]

Completed(st) == st.success + st.failed + st.skipped

\* progress_interval = max(1, len(media_items) // 20)
ProgressInterval(n) == Max(1, n \div 20)

Tasks == 1..media_items
Submitted == {t \in Tasks : future_state[t] # "none"}
Queued == {t \in Tasks : future_state[t] = "queued"}
Running == {t \in Tasks : future_state[t] = "running"}
Tallied == {t \in Tasks : future_state[t] = "tallied"}

\* a pool that starts a thread for every work item
WorkerFreeAlways == TRUE

\* ThreadPoolExecutor(max_workers=self.media_max_workers): a work item is
\* taken from the queue only by one of at most max_workers threads
WorkerFree == Cardinality(Running) < media_max_workers

\* the state when the "with ThreadPoolExecutor" block is entered
InitMedia ==
    /\ media_items \in 1..MaxMedia
    /\ media_max_workers \in 1..MaxWorkers
    /\ media_pc = "submit"
    /\ future_state = [t \in 1..MaxMedia |-> "none"]
    /\ future_result = [t \in 1..MaxMedia |-> NoResult]
    /\ download_stats = [NoStats EXCEPT !.total = media_items]
    /\ media_info = <<>>
    /\ media_disk = <<>>
    /\ signalled = FALSE
    /\ RunIdle
    /\ ResumeIdle
    /\ ClientIdle
    /\ SanitizeIdle
    /\ MetaIdle
    /\ UploadIdle
    /\ SaveIdle
    /\ PathIdle

mediaFrame == <<runVars, resumeVars, clientVars, sanitizeVars, metaVars,
                uploadVars, saveVars, pathVars,
                media_items, media_max_workers>>

\* executor.submit for the next item of the dict comprehension
Submit ==
    /\ media_pc = "submit"
    /\ LET t == Cardinality(Submitted) + 1 IN
       /\ future_state' = [future_state EXCEPT ![t] = "queued"]
       /\ media_pc' = IF t = media_items THEN "consume" ELSE "submit"
    /\ UNCHANGED <<mediaFrame, future_result, download_stats, media_info,
                   media_disk, signalled>>

\* a worker thread takes the oldest work item of the queue
StartTask ==
    /\ media_pc \in {"submit", "consume", "unwinding"}
    /\ WorkerFree
    /\ \E t \in Queued :
         /\ \A u \in Queued : t <= u
         /\ future_state' = [future_state EXCEPT ![t] = "running"]
    /\ UNCHANGED <<mediaFrame, media_pc, future_result, download_stats,
                   media_info, media_disk, signalled>>

\* a worker that adds its own result to the tallies when its call ends
FinishTaskTallies ==
    /\ media_pc \in {"submit", "consume", "unwinding"}
    /\ \E t \in Running, res \in TaskResults :
         /\ future_state' = [future_state EXCEPT ![t] = "done"]
         /\ future_result' = [future_result EXCEPT ![t] = res]
         /\ download_stats' = Tally(download_stats, res)
    /\ UNCHANGED <<mediaFrame, media_pc, media_info, media_disk, signalled>>

\* a worker's call of _download_media_file ends
FinishTask ==
    /\ media_pc \in {"submit", "consume", "unwinding"}
    /\ \E t \in Running, res \in TaskResults :
         /\ future_state' = [future_state EXCEPT ![t] = "done"]
         /\ future_result' = [future_result EXCEPT ![t] = res]
    /\ UNCHANGED <<mediaFrame, media_pc, download_stats, media_info,
                   media_disk, signalled>>

\* one iteration of the as_completed loop, show_progress included
Consume ==
    /\ media_pc = "consume"
    /\ \E t \in Tasks, late \in BOOLEAN :
         /\ future_state[t] = "done"
         /\ future_state' = [future_state EXCEPT ![t] = "tallied"]
         /\ LET st == Tally(download_stats, future_result[t]) IN
            /\ download_stats' = st
            /\ IF Completed(st) % ProgressInterval(media_items) = 0 \/ late
               THEN media_info' = <<st>> /\ media_disk' = <<st>>
               ELSE UNCHANGED <<media_info, media_disk>>
    /\ UNCHANGED <<mediaFrame, media_pc, future_result, signalled>>

\* the loop is over: the executor is shut down, the stats entry is set
ReturnMedia ==
    /\ media_pc = "consume"
    /\ Tallied = Tasks
    /\ media_info' = <<download_stats>>
    /\ media_pc' = "returned"
    /\ UNCHANGED <<mediaFrame, future_state, future_result, download_stats,
                   media_disk, signalled>>

\* SIGINT or SIGTERM: sys.exit(1) raises SystemExit in the main thread, which
\* leaves the with block through executor.shutdown(wait=True)
SignalMedia ==
    /\ media_pc \in {"submit", "consume"}
    /\ signalled' = TRUE
    /\ media_pc' = "unwinding"
    /\ UNCHANGED <<mediaFrame, future_state, future_result, download_stats,
                   media_info, media_disk>>

\* shutdown has joined the workers: SystemExit ends the process
ExitMedia ==
    /\ media_pc = "unwinding"
    /\ Queued = {}
    /\ Running = {}
    /\ media_pc' = "exited"
    /\ UNCHANGED <<mediaFrame, future_state, future_result, download_stats,
                   media_info, media_disk, signalled>>

NextMedia ==
    \/ Submit
    \/ StartTask
    \/ FinishTask
    \/ Consume
    \/ ReturnMedia
    \/ SignalMedia
    \/ ExitMedia

SpecMedia == InitMedia /\ [][NextMedia]_vars

(***************************************************************************)
(* WordPressBackup.__init__ and _init_wp_client, as called by main         *)
(*                                                                         *)
(* args.username and args.password say whether the value is non-empty once *)
(* the environment variables WP_USER and WP_PASSWORD are applied.          *)
(* args.fault is what the environment does to the constructor: the output  *)
(* directory cannot be created, or a bucket is set and boto3 is missing.   *)
(***************************************************************************)
ArgSets ==
    [username : BOOLEAN, password : BOOLEAN, force_public : BOOLEAN,
     auth_type : {"basic", "app_password"},
     fault : {"none", "mkdir_fails", "no_boto3"}]

\* the answers of client.discover_endpoints()
DiscoverResponses == {"ok", "auth_error", "api_error"}

\* lines 163-172
AuthStatus(a) ==
    IF a.username /\ a.password /\ ~a.force_public
    THEN [is_authenticated |-> TRUE, auth_mode |-> a.auth_type]
    ELSE [is_authenticated |-> FALSE, auth_mode |-> "public"]

\* an "except WPAPIAuthError" that always falls back to a public client
ReRaisesAuthErrorNever(auth) == FALSE

\* lines 277-280: "if self.is_authenticated: raise"
ReRaisesAuthError(auth) == auth.is_authenticated

InitClient ==
    /\ args \in ArgSets
    /\ init_pc = "start"
    /\ self_auth = [is_authenticated |-> FALSE, auth_mode |-> "public"]
    /\ client = "none"
    /\ init_resp = "none"
    /\ init_exit = "none"
    /\ RunIdle
    /\ MediaIdle
    /\ ResumeIdle
    /\ SanitizeIdle
    /\ MetaIdle
    /\ UploadIdle
    /\ SaveIdle
    /\ PathIdle

clientFrame == <<runVars, mediaVars, resumeVars, sanitizeVars, metaVars,
                 uploadVars, saveVars, pathVars,
                 args>>

\* __init__ up to the call of _init_wp_client (lines 144-223); ValueError
\* and ImportError reach main, which returns 1
Construct ==
    /\ init_pc = "start"
    /\ self_auth' = AuthStatus(args)
    /\ IF args.fault = "none"
       THEN init_pc' = "init_client" /\ UNCHANGED init_exit
       ELSE init_pc' = "raised" /\ init_exit' = "return_1"
    /\ UNCHANGED <<clientFrame, client, init_resp>>

\* lines 238-263: the client is built with or without an auth object
CreateClient ==
    /\ init_pc = "init_client"
    /\ client' = IF self_auth.is_authenticated
                 THEN (IF args.auth_type = "basic" THEN "basic"
                       ELSE "app_password")
                 ELSE "public"
    /\ init_pc' = "discover"
    /\ UNCHANGED <<clientFrame, self_auth, init_resp, init_exit>>

\* lines 265-298: the connection test and the two except clauses
Discover ==
    /\ init_pc = "discover"
    /\ \E r \in DiscoverResponses :
         /\ init_resp' = r
         /\ \/ /\ r = "ok"
               /\ init_pc' = "ready"
               /\ init_exit' = "run_backup"
               /\ UNCHANGED client
            \/ /\ r = "auth_error"
               /\ ReRaisesAuthError(self_auth)
               /\ init_pc' = "raised"
               /\ init_exit' = "return_1"
               /\ UNCHANGED client
            \/ /\ r = "auth_error"
               /\ ~ReRaisesAuthError(self_auth)
               /\ client' = "public"
               /\ init_pc' = "ready"
               /\ init_exit' = "run_backup"
            \/ /\ r = "api_error"
               /\ init_pc' = "raised"
               /\ init_exit' = "return_1"
               /\ UNCHANGED client
    /\ UNCHANGED <<clientFrame, self_auth>>

NextClient ==
    \/ Construct
    \/ CreateClient
    \/ Discover

SpecClient == InitClient /\ [][NextClient]_vars

(***************************************************************************)
(* _sanitize_filename                                                      *)
(*                                                                         *)
(* A string is the sequence of its characters.  The inputs are made of     *)
(* three runs of one character each, so that long names, long extensions,  *)
(* blank names and names of dots alone all occur.                          *)
(***************************************************************************)
MaxFilenameLen == 255
LongLen == 300

\* invalid_chars = '<>:"/\\|?*'
InvalidChars == {"<", ">", ":", "\"", "/", "\\", "|", "?", "*"}

\* characters for which str.isprintable() is False
NonPrintable == {"\t", "\n"}

Alphabet == {"a", ".", "/", "?", " ", "\t"}
RunLengths == {0, 1, 2, LongLen}

Rep(c, n) == [i \in 1..n |-> c]

Filenames ==
    {Rep(c1, n1) \o Rep(c2, n2) \o Rep(c3, n3) :
        c1 \in Alphabet, c2 \in Alphabet, c3 \in Alphabet,
        n1 \in RunLengths, n2 \in RunLengths, n3 \in RunLengths}

UNNAMED == <<"u", "n", "n", "a", "m", "e", "d", "_", "f", "i", "l", "e">>

\* filename.replace(char, '_') for each invalid char, then the isprintable join
ReplaceChar(c) == IF c \in InvalidChars \/ c \in NonPrintable THEN "_" ELSE c

Replaced(f) == [i \in 1..Len(f) |-> ReplaceChar(f[i])]

\* os.path.splitext of a name without separators: the extension starts at the
\* last dot, unless only dots precede it
SplitExt(f) ==
    LET dots == {i \in 1..Len(f) : f[i] = "."} IN
    IF dots = {} THEN [base |-> f, ext |-> <<>>]
    ELSE LET d == CHOOSE i \in dots : \A j \in dots : j <= i IN
         IF \A j \in 1..(d - 1) : f[j] = "."
         THEN [base |-> f, ext |-> <<>>]
         ELSE [base |-> SubSeq(f, 1, d - 1), ext |-> SubSeq(f, d, Len(f))]

\* the Python slice s[:limit - e]; a negative stop counts from the end
SliceTo(s, limit, e) ==
    IF e <= limit
    THEN SubSeq(s, 1, Min(Len(s), limit - e))
    ELSE IF Len(s) > e - limit THEN SubSeq(s, 1, Len(s) - (e - limit))
    ELSE <<>>

\* filename.strip() == ''
IsBlank(f) == \A i \in 1..Len(f) : f[i] = " "

\* lines 932-935
Truncated(f) ==
    IF Len(f) > MaxFilenameLen
    THEN LET p == SplitExt(f) IN
         SliceTo(p.base, MaxFilenameLen, Len(p.ext)) \o p.ext
    ELSE f

SanitizeFilename(f) ==
    IF f = <<>> THEN UNNAMED
    ELSE LET t == Truncated(Replaced(f)) IN
         IF t = <<>> \/ IsBlank(t) THEN UNNAMED ELSE t

InitSanitize ==
    /\ fn_in \in Filenames
    /\ fn_out = <<>>
    /\ fn_pc = "in"
    /\ RunIdle
    /\ MediaIdle
    /\ ResumeIdle
    /\ ClientIdle
    /\ MetaIdle
    /\ UploadIdle
    /\ SaveIdle
    /\ PathIdle

CallSanitize ==
    /\ fn_pc = "in"
    /\ fn_out' = SanitizeFilename(fn_in)
    /\ fn_pc' = "out"
    /\ UNCHANGED <<runVars, mediaVars, resumeVars, clientVars, metaVars,
                   uploadVars, saveVars, pathVars, fn_in>>

NextSanitize == CallSanitize

SpecSanitize == InitSanitize /\ [][NextSanitize]_vars

(***************************************************************************)
(* _backup_custom_post_type: the meta fetch that follows the collection    *)
(*                                                                         *)
(* The records are numbered 1..meta_items in the order of the list the     *)
(* collector returned; every record carries its id.                       *)
(***************************************************************************)
MaxRecords == 3

\* what meta_client.get_all(item_id) and the write of <id>.json can do: meta
\* data written, no meta data, an API error, a failing open or dump
MetaResponses == {"data", "empty", "api_error", "write_fails"}
MetaFailures == {"api_error", "write_fails"}

\* a loop whose except clauses count nothing
MetaErrorsIgnored(e, r) == e

\* lines 537-542: both except clauses add one to meta_errors
MetaErrors(e, r) == IF r \in MetaFailures THEN e + 1 ELSE e

\* lines 531-535: counted when meta data came back and was written
MetaSuccesses(n, r) == IF r = "data" THEN n + 1 ELSE n

InitMeta ==
    /\ meta_pc = "start"
    /\ meta_auth \in BOOLEAN
    /\ meta_items \in 0..MaxRecords
    /\ meta_idx = 1
    /\ meta_successes = 0
    /\ meta_errors = 0
    /\ meta_log = <<>>
    /\ meta_stats = <<>>
    /\ RunIdle
    /\ MediaIdle
    /\ ResumeIdle
    /\ ClientIdle
    /\ SanitizeIdle
    /\ UploadIdle
    /\ SaveIdle
    /\ PathIdle

metaFrame == <<runVars, mediaVars, resumeVars, clientVars, sanitizeVars,
               uploadVars, saveVars, pathVars, meta_auth, meta_items>>

\* lines 518-526: the guard "items and self.is_authenticated", get_meta and
\* the mkdir of the meta directory, whose failure the outer except logs
MetaSetup ==
    /\ meta_pc = "start"
    /\ IF meta_items > 0 /\ meta_auth
       THEN \E ok \in BOOLEAN :
               meta_pc' = IF ok THEN "loop" ELSE "setup_failed"
       ELSE meta_pc' = "skipped"
    /\ UNCHANGED <<metaFrame, meta_idx, meta_successes, meta_errors, meta_log,
                   meta_stats>>

\* one iteration of "for item in items"
MetaFetch ==
    /\ meta_pc = "loop"
    /\ meta_idx <= meta_items
    /\ \E r \in MetaResponses :
         /\ meta_log' = Append(meta_log, [item |-> meta_idx, resp |-> r])
         /\ meta_successes' = MetaSuccesses(meta_successes, r)
         /\ meta_errors' = MetaErrors(meta_errors, r)
    /\ meta_idx' = meta_idx + 1
    /\ UNCHANGED <<metaFrame, meta_pc, meta_stats>>

\* lines 544-548: the loop is over, the stats entry is written
MetaFinish ==
    /\ meta_pc = "loop"
    /\ meta_idx > meta_items
    /\ meta_stats' = <<[count |-> meta_successes, errors |-> meta_errors]>>
    /\ meta_pc' = "finished"
    /\ UNCHANGED <<metaFrame, meta_idx, meta_successes, meta_errors, meta_log>>

NextMeta ==
    \/ MetaSetup
    \/ MetaFetch
    \/ MetaFinish

SpecMeta == InitMeta /\ [][NextMeta]_vars

(***************************************************************************)
(* _save_json_file(file_path, data)                                        *)
(*                                                                         *)
(* A file is [state, records]: absent, empty (opened for writing, nothing  *)
(* written), partial (json.dump raised after part of the text was written) *)
(* or complete.  env says what the mkdir of the parent directory, the      *)
(* structured write and the simplified write do.                           *)
(***************************************************************************)
WriteOutcomes == {"ok", "open_fails", "dump_fails_at_once", "dump_fails_midway"}

SaveEnvs ==
    [mkdir : {"ok", "fails"}, write : WriteOutcomes, simplified : WriteOutcomes]

\* "with open(path, 'w') as f: json.dump(data, f, ...)" on a file
WriteJson(file, data, outcome) ==
    CASE outcome = "open_fails" -> file
      [] outcome = "dump_fails_at_once" -> [state |-> "empty", records |-> 0]
      [] outcome = "dump_fails_midway" ->
            [state |-> "partial", records |-> data \div 2]
      [] OTHER -> [state |-> "complete", records |-> data]

\* lines 689-694: the structured write fails
StructuredFails(env) == env.mkdir = "fails" \/ env.write # "ok"

\* _save_json_file: the files and the log after the call
SaveJsonFile(path, simplified, data, env) ==
    LET first == IF env.mkdir = "fails" THEN path
                 ELSE WriteJson(path, data, env.write)
        opened1 == IF env.mkdir = "fails" \/ env.write = "open_fails"
                   THEN <<>> ELSE <<"path">>
    IN IF ~StructuredFails(env)
       THEN [path |-> first, simplified |-> simplified, opened |-> opened1,
             logged |-> <<>>, raised |-> FALSE]
       ELSE [path |-> first,
             simplified |-> WriteJson(simplified, data, env.simplified),
             opened |-> opened1 \o (IF env.simplified = "open_fails"
                                    THEN <<>> ELSE <<"simplified">>),
             logged |-> <<"Failed to save JSON file">>
                        \o (IF env.simplified = "ok" THEN <<>>
                            ELSE <<"Failed to save even simplified JSON">>),
             raised |-> FALSE]

InitSave ==
    /\ sj_pc = "call"
    /\ sj_data \in FileSizes
    /\ sj_env \in SaveEnvs
    /\ sj_path = AbsentFile
    /\ sj_simplified = AbsentFile
    /\ sj_opened = <<>>
    /\ sj_logged = <<>>
    /\ RunIdle
    /\ MediaIdle
    /\ ResumeIdle
    /\ ClientIdle
    /\ SanitizeIdle
    /\ MetaIdle
    /\ UploadIdle
    /\ PathIdle

CallSaveJsonFile ==
    /\ sj_pc = "call"
    /\ LET r == SaveJsonFile(sj_path, sj_simplified, sj_data, sj_env) IN
       /\ sj_path' = r.path
       /\ sj_simplified' = r.simplified
       /\ sj_opened' = r.opened
       /\ sj_logged' = r.logged
       /\ sj_pc' = IF r.raised THEN "raised" ELSE "returned"
    /\ UNCHANGED <<runVars, mediaVars, resumeVars, clientVars, sanitizeVars,
                   metaVars, uploadVars, pathVars, sj_data, sj_env>>

NextSave == CallSaveJsonFile

SpecSave == InitSave /\ [][NextSave]_vars

(***************************************************************************)
(* _download_media_file: the target path of a media record                 *)
(*                                                                         *)
(* Two records with different ids are resolved as two downloads of one     *)
(* media phase resolve them.  A record holds: the last component of its    *)
(* 'file' field, if it has one, and whether that field names another       *)
(* directory than the first record's; the last component of the path of    *)
(* source_url; the year and month of its 'date', if it has one that        *)
(* parses; its mime_type; whether the mkdir of its subfolder succeeds.     *)
(***************************************************************************)
NameA == <<"a", ".", "j">>
NameQ == <<"a", "?", ".", "j">>
NameU == <<"a", "_", ".", "j">>

FileFields == {"absent", "2024/01", "2024/02"}
Months == {"absent", "unparsable", "2024/01", "2024/02"}

Records(id) ==
    {r \in [id : {id},
            file : FileFields,
            file_name : {<<>>, NameQ, NameU},
            url_name : {<<>>, NameA},
            date : Months,
            mime_type : {"", "image/jpeg"},
            mkdir_ok : BOOLEAN] :
        /\ r.file = "absent" => r.file_name = <<>>
        /\ r.date \in {"absent", "unparsable"} => r.mkdir_ok}

\* str(media_item['id'])
IdText(id) == IF id = 1 THEN <<"1">> ELSE <<"2">>

\* _guess_extension_from_mime
GuessExtensionFromMime(mime) ==
    IF mime = "image/jpeg" THEN <<".", "j", "p", "g">>
    ELSE <<".", "b", "i", "n">>

\* lines 809-824: the file name of a record
Filename(r) ==
    IF r.file # "absent" /\ r.file_name # <<>> THEN r.file_name
    ELSE IF r.url_name # <<>> THEN r.url_name
    ELSE IdText(r.id) \o GuessExtensionFromMime(r.mime_type)

\* lines 827-847: the year/month subfolder, '' when there is none
Subfolder(r) ==
    IF r.date \in {"absent", "unparsable"} \/ ~r.mkdir_ok THEN "" ELSE r.date

\* line 850: media_dir / subfolder / self._sanitize_filename(filename)
FilePath(r) ==
    [subfolder |-> Subfolder(r), name |-> SanitizeFilename(Filename(r))]

InitPaths ==
    /\ tp_pc = "in"
    /\ tp_items \in {<<r1, r2>> : r1 \in Records(1), r2 \in Records(2)}
    /\ tp_paths = <<>>
    /\ RunIdle
    /\ MediaIdle
    /\ ResumeIdle
    /\ ClientIdle
    /\ SanitizeIdle
    /\ MetaIdle
    /\ UploadIdle
    /\ SaveIdle

\* the two downloads have computed file_path
ResolvePaths ==
    /\ tp_pc = "in"
    /\ tp_paths' = <<FilePath(tp_items[1]), FilePath(tp_items[2])>>
    /\ tp_pc' = "out"
    /\ UNCHANGED <<runVars, mediaVars, resumeVars, clientVars, sanitizeVars,
                   metaVars, uploadVars, saveVars, tp_items>>

NextPaths == ResolvePaths

SpecPaths == InitPaths /\ [][NextPaths]_vars

(***************************************************************************)
(* Properties                                                              *)
(***************************************************************************)
\* the collector has returned and no later pass has started
PassFinished == returned # <<>>

\* records in all.json of the pass (0 when the file was not written)
AllJsonCount == IF all_json = <<>> THEN 0 ELSE all_json[1]

TerminalStatus == {"completed", "interrupted", "failed"}

\* the collections whose unauthenticated view is restricted
Restricted(tn) == tn.cpt \/ tn.name \in {"posts", "pages"}

\* C1: when a pass of _backup_content_type has finished, the number of
\* records written to all.json equals the sum of the record counts of the
\* page_<n>.json files written during that pass.
C1_AggregateEqualsPages ==
    PassFinished => AllJsonCount = SumCounts(page_files)

\* a finished pass of two pages (100 and 40 records)
C1_Witness ==
    /\ PassFinished
    /\ Len(page_files) = 2
    /\ all_json = <<per_page + ShortLen>>
    /\ stop_reason = "short"

\* C2: in an unauthenticated run every list call for posts, pages or a
\* custom collection - pagination request or existence probe - carries the
\* filter status=publish.
C2_EveryListCallPublish ==
    (/\ ~is_authenticated
     /\ last_req.op \in {"list", "probe"}
     /\ Restricted(last_req.type))
    => last_req.status = "publish"

\* the part of C2 about the collector alone: every pagination request of an
\* unauthenticated run for posts, pages or a custom collection carries
\* status=publish, and no other pagination request carries a status filter.
PaginationPublish ==
    last_req.op = "list" =>
        (last_req.status = "publish"
            <=> (~is_authenticated /\ Restricted(last_req.type)))

\* C3 as stated: the k-th consecutive RateLimited failure on a page, k in
\* 1..5, is followed by a sleep of exactly 2^(k-1) seconds and a retry of the
\* same page.
C3_ConsecutiveRateLimitDelay ==
    (pc = "collect" /\ consec_rl \in 1..max_retries)
    => /\ stop_reason = "none"
       /\ last_sleep = Pow2(consec_rl - 1)
       /\ last_req.page = page

\* C3 amended: the RateLimited failure that brings the retry counter shared
\* with the generic-error path to k, k in 1..5, is followed by a sleep of
\* exactly 2^(k-1) seconds (1,2,4,8,16 when the failures of the page are all
\* rate limits), and the next list call, which is enabled, requests the page
\* of the call that was rate-limited.
C3_RateLimitDelayByRetryCount ==
    (pc = "collect" /\ consec_rl >= 1 /\ retry_count <= max_retries)
    => /\ retry_count >= 1
       /\ stop_reason = "none"
       /\ last_sleep = Pow2(retry_count - 1)
       /\ (consec_rl = retry_count => last_sleep = Pow2(consec_rl - 1))
       /\ last_req.op = "list"
       /\ last_req.page = page
       /\ ENABLED ListPage

\* the fifth rate limit in a row on page 2: 16 seconds, page still 2
C3_Witness ==
    /\ pc = "collect"
    /\ consec_rl = max_retries
    /\ retry_count = max_retries
    /\ last_sleep = 16
    /\ page = 2
    /\ last_req.page = 2

\* C4 as stated: the k-th consecutive generic API error on a page, k in 1..5,
\* is followed by a sleep of min(2^(k-1), 30) seconds and a retry of the same
\* page; the failure that makes retry_count exceed 5 stops the collection
\* without further sleep or list call.
C4_ConsecutiveErrorDelay ==
    /\ (pc = "collect" /\ consec_err \in 1..max_retries)
       => /\ stop_reason = "none"
          /\ last_sleep = Min(Pow2(consec_err - 1), ErrorCap)
          /\ last_req.page = page
    /\ (pc = "collect" /\ consec_err >= 1 /\ retry_count > max_retries)
       => /\ stop_reason = "retries"
          /\ last_sleep = 0
          /\ ~ENABLED ListPage

\* C4 amended: the generic error that brings the retry counter shared with
\* the rate-limit path to k, k in 1..5, is followed by a sleep of
\* min(2^(k-1), 30) seconds (1,2,4,8,16 when the failures of the page are all
\* generic errors) and a retry of the same page; the failure that makes
\* retry_count exceed 5 stops the collection without sleep or list call.
C4_ErrorDelayByRetryCount ==
    /\ (pc = "collect" /\ consec_err >= 1 /\ retry_count <= max_retries)
       => /\ retry_count >= 1
          /\ stop_reason = "none"
          /\ last_sleep = Min(Pow2(retry_count - 1), ErrorCap)
          /\ (consec_err = retry_count
                 => last_sleep = Min(Pow2(consec_err - 1), ErrorCap))
          /\ last_req.op = "list"
          /\ last_req.page = page
          /\ ENABLED ListPage
    /\ (pc = "collect" /\ consec_err >= 1 /\ retry_count > max_retries)
       => /\ stop_reason = "retries"
          /\ last_sleep = 0
          /\ ~ENABLED ListPage

\* the fifth generic error in a row: 16 seconds, same page
C4_Witness ==
    /\ pc = "collect"
    /\ consec_err = max_retries
    /\ retry_count = max_retries
    /\ last_sleep = 16
    /\ last_req.page = page

\* C5: a collection abandoned because its retries are exhausted gets an
\* error entry in the manifest's stats.
C5_AbandonRecordsError ==
    (PassFinished /\ stop_reason = "retries")
    => stats[type_name].kind = "error"

\* C6: when pagination stops early (retries exhausted, NotFound or
\* PermissionDenied) after at least one page was fetched, the records of the
\* fetched pages are returned, counted in the stats entry and written to
\* all.json.
C6_PartialResultsKept ==
    (/\ PassFinished
     /\ stop_reason \in {"retries", "not_found", "permission"}
     /\ Len(page_files) >= 1)
    => /\ returned = <<SumCounts(page_files)>>
       /\ stats[type_name].kind = "count"
       /\ stats[type_name].count = SumCounts(page_files)
       /\ all_json = <<SumCounts(page_files)>>

\* a pass abandoned on page 2 after one full page
C6_Witness ==
    /\ PassFinished
    /\ stop_reason = "retries"
    /\ page_files = <<[n |-> 1, count |-> per_page]>>
    /\ returned = <<per_page>>

\* C7: when run_backup has ended on its own (returned or raised), every
\* configured collection was attempted and has an entry in the stats,
\* whatever failed before it.
C7_LaterCollectionsAttempted ==
    pc \in {"done", "raised"} =>
        \A i \in 1..Len(content_types) :
            content_types[i] \in CollectorTypes =>
                /\ content_types[i] \in attempted
                /\ stats[Builtin(content_types[i])].kind # "none"

\* the part of C7 that the code keeps: a built-in collection that raised
\* into run_backup gets an error entry and the loop goes on
BuiltinFailureIsolated ==
    pc = "done" =>
        \A i \in 1..Len(content_types) :
            content_types[i] \in CollectorTypes =>
                /\ content_types[i] \in attempted
                /\ stats[Builtin(content_types[i])].kind # "none"

\* C8: the manifest status only moves no status -> in_progress -> completed,
\* interrupted or failed; a terminal status never changes.
C8_StatusTransitions ==
    [][/\ status = "none" => status' \in {"none", "in_progress"}
       /\ status = "in_progress"
            => status' \in {"in_progress"} \cup TerminalStatus
       /\ status \in TerminalStatus => status' = status]_vars

\* a run that failed in the detection, after in_progress
C8_Witness ==
    /\ status = "failed"
    /\ pc = "raised"
    /\ disk_info.status = "failed"

\* C9: every step of run_backup that issues a discovery, probe or list
\* request starts with backup_info.json holding status in_progress.
C9_InProgressPersistedFirst ==
    [][last_req' # last_req => disk_info.status = "in_progress"]_vars

\* the first request of the run, with in_progress on disk
C9_Witness ==
    /\ last_req.op = "list"
    /\ last_req.page = 1
    /\ page_files = <<>>
    /\ disk_info.status = "in_progress"
    /\ disk_info.stats = [k \in StatKeys |-> NoEntry]

\* C10: when the process has ended on an exit signal received during
\* run_backup, backup_info.json holds the status interrupted.
C10_InterruptPersisted ==
    pc = "exited" => disk_info.status = "interrupted"

ErrorKeys == {k \in StatKeys : stats[k].kind = "error"}

\* C17: the exit status is 0 only if run_backup completed and no collection
\* recorded an error.
C17_ExitZeroIffFullSuccess ==
    /\ exit_code = "0" => (status = "completed" /\ ErrorKeys = {})
    /\ (pc \in {"done", "raised", "exited"} /\ exit_code # "0")
          => exit_code = "1"

\* C18: while a collection is being paginated, every result already put
\* into the in-memory manifest is in backup_info.json.
C18_ManifestPersistedPerCollection ==
    pc = "collect" =>
        \A k \in StatKeys :
            stats[k].kind # "none" => disk_info.stats[k] = stats[k]

\* C19: a NotFound or PermissionDenied answer stops the collection at once:
\* no sleep, retry_count untouched, and no further list call.
C19_NoRetryOnNotFoundOrPermission ==
    /\ []((pc = "collect" /\ last_resp \in {"not_found", "permission"})
            => /\ stop_reason = last_resp
               /\ last_sleep = 0
               /\ ~ENABLED ListPage)
    /\ [][(ListPage /\ last_resp' \in {"not_found", "permission"})
            => /\ retry_count' = retry_count
               /\ page' = page
               /\ items' = items]_vars

\* PermissionDenied on page 2, after two retries that were not consumed by it
C19_Witness ==
    /\ pc = "collect"
    /\ last_resp = "permission"
    /\ retry_count = 2
    /\ page = 2
    /\ Len(page_files) = 1

\* the page files of the pass are page_1 .. page_k, all full but the last
PagesInOrder ==
    /\ \A i \in 1..Len(page_files) : page_files[i].n = i
    /\ \A i \in 1..(Len(page_files) - 1) : page_files[i].count = per_page

\* C20: within one collection the first request is for page 1, the requested
\* page never decreases, it advances by exactly 1 and only after the current
\* page came in full and its page_<n>.json was written.
C20_PageOrder ==
    /\ [](pc = "collect"
            => /\ PagesInOrder
               /\ page \in {Len(page_files), Len(page_files) + 1}
               /\ (page = Len(page_files)
                     => page_files[page].count < per_page)
               /\ (last_resp # "none"
                     => last_req.page \in {page, page - 1}))
    /\ [][(ListPage /\ last_resp = "none") => last_req'.page = 1]_vars
    /\ [][(ListPage /\ last_resp # "none")
            => last_req'.page >= last_req.page]_vars
    /\ [][ListPage
            => \/ page' = page
               \/ /\ page' = page + 1
                  /\ page_files' =
                       Append(page_files, [n |-> page, count |-> per_page])]_vars

\* page 2 is being requested and page_1.json, a full page, is on disk
C20_Witness ==
    /\ pc = "collect"
    /\ page = 2
    /\ last_req.page = 2
    /\ last_resp = "rate_limit"
    /\ page_files = <<[n |-> 1, count |-> per_page]>>

\* C13: a download of a record whose target file is already there, left by an
\* earlier download, with the size the record's filesize field or the
\* probe's positive Content-Length gives, is skipped: no bytes, no GET.
C13_ResumeSkips ==
    [][(/\ dl_runs >= 1
        /\ dl_local.exists
        /\ dl_runs' = dl_runs + 1
        /\ dl_local.size \in dl_known')
       => /\ dl_result'.kind = "value"
          /\ dl_result'.error = "skipped"
          /\ dl_result'.bytes = 0
          /\ ~dl_result'.get
          /\ dl_local' = dl_local]_vars

\* the second download of a record without filesize field, skipped on the
\* probe's Content-Length after the first download wrote the whole body
C13_Witness ==
    /\ dl_runs = 2
    /\ dl_item.filesize = "absent"
    /\ dl_local = [exists |-> TRUE, size |-> dl_body]
    /\ dl_result = Value(TRUE, 0, "skipped", TRUE, FALSE)
    /\ dl_known = {dl_body}

\* C11: after an exit signal no media download starts that had not started
\* when the signal arrived: a task still queued in the pool stays queued.
C11_NoNewDownloadAfterSignal ==
    [][signalled =>
         \A t \in Tasks :
            future_state[t] = "queued" => future_state'[t] = "queued"]_vars

\* C12: every task is tallied exactly once and in its own class, the sum
\* success + failed + skipped never exceeds N, and it equals N and total
\* when the coordinator returns, also when tasks raised.
C12_TalliesExact ==
    /\ Completed(download_stats) = Cardinality(Tallied)
    /\ Completed(download_stats) <= media_items
    /\ download_stats.total = media_items
    /\ download_stats.failed >=
         Cardinality({t \in Tallied : future_result[t].kind = "raised"})
    /\ media_pc = "returned"
         => /\ Completed(download_stats) = media_items
            /\ media_info = <<download_stats>>

\* more items than workers, one task raised, one downloaded, all tallied
C12_Witness ==
    /\ media_pc = "returned"
    /\ media_items > media_max_workers
    /\ \E t \in Tasks : future_result[t].kind = "raised"
    /\ \E t \in Tasks : future_result[t].success
    /\ Completed(download_stats) = media_items

CredentialsSelected == args.username /\ args.password /\ ~args.force_public

\* C14 as stated: credentials are supplied, authenticated mode is selected
\* and the connection test answers with an authentication error; then the
\* run goes on with an unauthenticated client and in public mode.
C14_DegradesToPublic ==
    (CredentialsSelected /\ init_resp = "auth_error")
        => /\ init_exit = "run_backup"
           /\ client = "public"
           /\ self_auth = [is_authenticated |-> FALSE, auth_mode |-> "public"]

\* C14 amended: an authentication error of the connection test is re-raised
\* when authenticated mode was selected (main returns 1, the client and the
\* mode stay authenticated); the run goes on with a fresh unauthenticated
\* client only when it was in public mode already.
C14_AuthErrorAbortsWhenAuthenticated ==
    init_resp = "auth_error"
        => IF CredentialsSelected
           THEN /\ init_pc = "raised"
                /\ init_exit = "return_1"
                /\ client = args.auth_type
                /\ self_auth = [is_authenticated |-> TRUE,
                                auth_mode |-> args.auth_type]
           ELSE /\ init_pc = "ready"
                /\ init_exit = "run_backup"
                /\ client = "public"
                /\ self_auth = [is_authenticated |-> FALSE,
                                auth_mode |-> "public"]

C14_Witness ==
    /\ CredentialsSelected
    /\ init_resp = "auth_error"
    /\ init_exit = "return_1"

IsSuffix(e, f) ==
    /\ Len(e) <= Len(f)
    /\ SubSeq(f, Len(f) - Len(e) + 1, Len(f)) = e

\* what C15 says apart from the length: a non-empty name without invalid or
\* non-printable characters, the placeholder for an empty or blank name, a
\* character-wise replacement when nothing is cut, the extension kept when
\* something is cut
SanitizeOtherParts ==
    fn_pc = "out"
        => /\ fn_out # <<>>
           /\ \A i \in 1..Len(fn_out) :
                 fn_out[i] \notin InvalidChars \cup NonPrintable
           /\ (fn_in = <<>> \/ IsBlank(fn_in)) => fn_out = UNNAMED
           /\ (Len(fn_in) <= MaxFilenameLen /\ ~IsBlank(fn_in))
                 => fn_out = Replaced(fn_in)
           /\ (Len(fn_in) > MaxFilenameLen /\ fn_out # UNNAMED)
                 => IsSuffix(SplitExt(Replaced(fn_in)).ext, fn_out)

\* C15: for every input the returned name is non-empty, free of invalid and
\* non-printable characters, at most 255 long, keeps the extension when it
\* is truncated, and is the placeholder when the name is empty or blank.
C15_SanitizedName ==
    /\ SanitizeOtherParts
    /\ fn_pc = "out" => Len(fn_out) <= MaxFilenameLen

\* C21: a download that is skipped adds one to the skipped tally and nothing
\* to the success tally.
C21_SkippedTallied ==
    /\ download_stats.skipped =
         Cardinality({t \in Tallied : future_result[t].error = "skipped"})
    /\ download_stats.success =
         Cardinality({t \in Tallied : /\ future_result[t].success
                                      /\ future_result[t].error # "skipped"})

\* C22: one task per media record, each submitted once and all of them
\* before a result is consumed; never more than media_max_workers tasks
\* run at the same time.
C22_PoolDiscipline ==
    /\ [](Cardinality(Running) <= media_max_workers)
    /\ []((Tallied # {} \/ media_pc \in {"consume", "returned"})
            => Submitted = Tasks)
    /\ [](\A t \in 1..MaxMedia : t \notin Tasks => future_state[t] = "none")
    /\ [][\A t \in Tasks :
            (future_state'[t] = "queued" /\ future_state[t] # "queued")
                => future_state[t] = "none"]_vars
    /\ [][\A t \in Tasks :
            future_state[t] # "none" => future_state'[t] # "none"]_vars

\* every worker busy while a task waits in the queue
C22_Witness ==
    /\ media_max_workers = MaxWorkers
    /\ Cardinality(Running) = media_max_workers
    /\ Queued # {}

\* a step of the probing loop: one candidate is probed
ProbeStep == pc = "probe" /\ probe_idx' = probe_idx + 1

ProbeFailures == {"not_found", "permission", "error"}

\* C23: a candidate whose probe fails with PermissionDenied is recorded as a
\* discovered collection when the run is authenticated and is skipped when
\* it is not.
C23_PermissionProbeRecorded ==
    [][(ProbeStep /\ probe_resp' = "permission")
          => custom_post_types' =
                IF is_authenticated
                THEN Append(custom_post_types,
                            COMMON_CUSTOM_POST_TYPES[probe_idx])
                ELSE custom_post_types]_vars

MetaLogged(R) == Cardinality({i \in 1..Len(meta_log) : meta_log[i].resp \in R})

\* C25: in authenticated mode the meta fetch is issued once per collected
\* record, in order; a failing fetch adds one to the error counter and the
\* loop goes on; successes plus errors never exceed the number of records;
\* an unauthenticated run issues no meta fetch.
C25_MetaFetchPerRecord ==
    /\ Len(meta_log) <= meta_items
    /\ \A i \in 1..Len(meta_log) : meta_log[i].item = i
    /\ meta_errors = MetaLogged(MetaFailures)
    /\ meta_successes = MetaLogged({"data"})
    /\ meta_successes + meta_errors <= meta_items
    /\ ~meta_auth => meta_log = <<>>
    /\ meta_pc = "loop" => Len(meta_log) = meta_idx - 1
    /\ meta_pc = "finished"
         => /\ Len(meta_log) = meta_items
            /\ meta_stats = <<[count |-> meta_successes,
                               errors |-> meta_errors]>>

\* the first fetch failed, a later one succeeded, one returned no data
C25_Witness ==
    /\ meta_pc = "finished"
    /\ meta_items >= 3
    /\ meta_log[1].resp = "api_error"
    /\ meta_log[2].resp = "data"
    /\ meta_log[3].resp = "empty"

\* C26: a pass stopped by NotFound or PermissionDenied leaves an error entry
\* in the stats, not a count/pages entry.
C26_StopCapturedAsError ==
    (PassFinished /\ stop_reason \in {"not_found", "permission"})
    => /\ stats[type_name].kind = "error"
       /\ stats[type_name] # CountEntry(items, page)

\* C28: the 'pages' value of a finished pass is the number of page files
\* written in that pass, however the pagination ended.
C28_PagesEqualsPageFiles ==
    PassFinished => stats[type_name].pages = Len(page_files)

\* C29: no list call follows an empty or a short page within a pass; an
\* empty page writes no page file; a pass that collected no record writes
\* no all.json.
C29_EndOfCollection ==
    /\ []((pc = "collect" /\ last_resp \in {"empty", "short"})
            => ~ENABLED ListPage)
    /\ [][ListPage => last_resp \notin {"empty", "short"}]_vars
    /\ [][(ListPage /\ last_resp' = "empty")
            => /\ page_files' = page_files
               /\ items' = items
               /\ stop_reason' = "empty"]_vars
    /\ [][(ListPage /\ last_resp' = "short") => stop_reason' = "short"]_vars
    /\ []((PassFinished /\ items = 0) => all_json = <<>>)

\* a full page, then an empty one: one page file, the pass is over
C29_Witness ==
    /\ PassFinished
    /\ stop_reason = "empty"
    /\ Len(page_files) = 1
    /\ all_json = <<per_page>>

\* C27: a stats entry written at the end of a collection's pagination is
\* never changed or replaced afterwards in the run.
C27_FinalisedEntryImmutable ==
    [][\A k \in StatKeys :
          stats[k].kind = "count" => stats'[k] = stats[k]]_vars

UploadLogged(R) == Cardinality({i \in 1..Len(up_log) : up_log[i].resp \in R})

\* C30: the upload starts after every configured collection was processed;
\* every file found is handed to the sink once, in order; a failing upload
\* is counted and the loop goes on; at the end files_uploaded plus
\* upload_errors is the number of files found.
C30_UploadPhase ==
    /\ (pc \in {"upload", "uploaded"} \/ up_log # <<>>)
         => /\ ct_idx > Len(content_types)
            /\ \A i \in 1..Len(content_types) : content_types[i] \in attempted
            /\ up_files = TreeFiles
    /\ Len(up_log) <= up_files
    /\ \A i \in 1..Len(up_log) : up_log[i].file = i
    /\ uploaded_files = UploadLogged({"uploaded"})
    /\ upload_errors = UploadLogged(UploadFailures)
    /\ pc = "upload" => Len(up_log) = up_idx - 1
    /\ pc \in {"uploaded", "done"}
         => /\ Len(up_log) = up_files
            /\ uploaded_files + upload_errors = up_files
            /\ s3_upload = <<[files_uploaded |-> uploaded_files,
                              upload_errors |-> upload_errors]>>

\* two page files, all.json and the manifest; the first upload failed and
\* the others went through
C30_Witness ==
    /\ pc = "done"
    /\ up_files = 4
    /\ up_log[1].resp = "client_error"
    /\ up_log[2].resp = "uploaded"
    /\ upload_errors = 1
    /\ uploaded_files = 3

\* C31: the manifest status is 'completed' exactly when run_backup has
\* returned, and 'failed' exactly when an exception has escaped it, and
\* then the key 'error' is recorded and the manifest on disk says the same;
\* the key 'error' is set in no other case.  Error entries of collections
\* and a failed upload phase leave a returning run 'completed'.
C31_FinalStatus ==
    /\ (status = "completed") <=> (pc = "done")
    /\ (status = "failed") <=> (pc = "raised")
    /\ info_error <=> (pc = "raised")
    /\ pc \in {"done", "raised"} => disk_info.status = status
    /\ pc = "exited" => status \notin {"completed", "failed"}

C31_Witness ==
    /\ pc = "done"
    /\ status = "completed"
    /\ s3_upload_error
    /\ ErrorKeys # {}

\* the GET requests among the requests of the last download
GetsSent == {i \in DOMAIN dl_requests : dl_requests[i] = "GET"}

\* the answers to the GET under which the body download fails
GetFailures == {"error", "open_fails", "partial"}

\* C32: a download sends at most one GET; once the GET is sent the download
\* returns a value, and when the GET or the write of the body fails that
\* value is the failed outcome with zero bytes.
C32_NoRetryFailureIsValue ==
    /\ Cardinality(GetsSent) <= 1
    /\ GetsSent # {} => dl_result.kind = "value"
    /\ (GetsSent # {} /\ dl_env.get \in GetFailures)
          => /\ ~dl_result.success
             /\ dl_result.bytes = 0
             /\ dl_result.error # ""

C32_Witness ==
    /\ dl_runs = 1
    /\ dl_requests = <<"HEAD", "GET">>
    /\ dl_env.get = "open_fails"
    /\ dl_result = Value(FALSE, 0, "File system error", TRUE, TRUE)

\* C33: a download whose probe was sent and failed (request error or
\* unparsable Content-Length) goes on to the GET and ends as the body
\* download alone decides; a probe answering Content-Length 0 is followed
\* by the GET too.
C33_ProbeFailureFallsThrough ==
    [][(/\ dl_runs' = dl_runs + 1
        /\ dl_result'.head
        /\ \/ dl_env'.head \in {"error", "badlen"}
           \/ dl_env'.head = "len" /\ dl_env'.head_len = 0)
       => /\ dl_requests' = <<"HEAD", "GET">>
          /\ dl_result' = GetBody(dl_local, dl_body, dl_env').result
          /\ dl_local' = GetBody(dl_local, dl_body, dl_env').local]_vars

\* an unparsable Content-Length followed by a complete body download
C33_Witness ==
    /\ dl_runs = 1
    /\ dl_env.head = "badlen"
    /\ dl_env.get = "ok"
    /\ dl_body > 0
    /\ dl_result = Value(TRUE, dl_body, "", TRUE, TRUE)

\* a step of a worker thread: a task starts or ends
WorkerStep ==
    \E t \in Tasks :
       /\ future_state[t] \in {"queued", "running"}
       /\ future_state'[t] # future_state[t]

\* C34: a step of a worker thread leaves the tallies and the manifest entry
\* alone; the tallies change only in an iteration of the coordinator's loop,
\* by the tally of the one future it consumes, and the manifest entry only
\* in the coordinator; at every moment the tallies count exactly the
\* consumed futures.
C34_OnlyCoordinatorWrites ==
    /\ [][WorkerStep
            => UNCHANGED <<download_stats, media_info, media_disk>>]_vars
    /\ [][download_stats' # download_stats
            => /\ media_pc = "consume"
               /\ \E t \in Tasks :
                    /\ future_state[t] = "done"
                    /\ future_state'[t] = "tallied"
                    /\ download_stats' =
                         Tally(download_stats, future_result[t])]_vars
    /\ [][<<media_info, media_disk>>' # <<media_info, media_disk>>
            => media_pc = "consume" /\ ~WorkerStep]_vars
    /\ [](Completed(download_stats) = Cardinality(Tallied))

\* the coordinator has consumed and saved one result while one worker is
\* still running and another result waits to be consumed
C34_Witness ==
    /\ media_pc = "consume"
    /\ Tallied # {}
    /\ Running # {}
    /\ \E t \in Tasks : future_state[t] = "done"
    /\ media_disk = <<download_stats>>

\* C35: while the collector runs, the manifest is neither changed in memory
\* nor rewritten on disk: its entries are written by run_backup alone.
C35_OnlyOrchestratorWritesManifest ==
    [][pc = "collect" => UNCHANGED <<stats, status, disk_info>>]_vars

\* ceil(n / per_page)
CeilPages(n) == (n + per_page - 1) \div per_page

\* the failed list calls of the current pass
FailedCalls ==
    IF stop_reason = "empty"
    THEN list_calls - (Len(page_files) + 1)
    ELSE list_calls - Len(page_files)

\* C37: a pass issues at most 6 * ceil(max_items / 100) list calls, none when
\* max_items is 0, and whatever the client answers the pass ends.
C37_CollectorTerminates ==
    /\ [](list_calls <= (max_retries + 1) * CeilPages(max_items))
    /\ [](max_items = 0 => list_calls = 0)
    /\ [][ListPageCounted => page <= CeilPages(max_items)]_vars
    /\ (pc = "collect") ~> (pc # "collect")

\* the bound is met: six calls for each of two pages
C37_Witness ==
    /\ PassFinished
    /\ max_items = 2 * per_page
    /\ list_calls = (max_retries + 1) * CeilPages(max_items)

\* C38: retry_count is the number of failed list calls in a row, rate
\* limits and other errors alike, since the last page that held records;
\* the sixth failure in a row abandons the pass, so no page is requested
\* more than six times in a row; failures separated by a page are not
\* added up.
C38_SharedRetryCounter ==
    /\ [](retry_count = consec_fail)
    /\ [](consec_fail <= max_retries + 1)
    /\ []((stop_reason = "retries") <=> (consec_fail = max_retries + 1))
    /\ [][ListPageCounted => consec_fail <= max_retries]_vars
    /\ [][(ListPageCounted /\ last_resp' \in {"rate_limit", "error"})
            => (/\ retry_count' = retry_count + 1
                /\ page' = page)]_vars

\* a finished pass that was not abandoned, with more than five failures in
\* all, of both kinds
C38_Witness ==
    /\ PassFinished
    /\ stop_reason = "short"
    /\ Len(page_files) = 2
    /\ FailedCalls > max_retries
    /\ consec_fail = 0

\* C40: the list of custom post types built by the discovery holds no name
\* twice, and no collection of the list is paginated when its stats entry
\* is already written.
C40_NoDuplicateCollection ==
    /\ \A i, j \in 1..Len(custom_post_types) :
          custom_post_types[i] = custom_post_types[j] => i = j
    /\ (pc = "collect" /\ caller = "cpt") => stats[type_name] = NoEntry

\* C36: _save_json_file returns; a failed structured write is followed by
\* one write to <path>.simplified.json and by no other; when both writes
\* fail there is no file at <path>.
C36_SaveJsonFileAbsentOnFailure ==
    sj_pc \in {"returned", "raised"}
    => /\ sj_pc = "returned"
       /\ StructuredFails(sj_env)
            => Len(SelectSeq(sj_opened, LAMBDA f : f = "simplified")) <= 1
       /\ (StructuredFails(sj_env) /\ sj_env.simplified # "ok")
            => sj_path.state = "absent"

\* C39: the two records of a media phase, which differ in their ids, resolve
\* to different target files.
C39_DistinctTargetPaths ==
    tp_pc = "out" => tp_paths[1] # tp_paths[2]

====
